---- MODULE Spec2Model ----
(***************************************************************************)
(* A model of gotestwaf's scanner (internal/scanner/scanner.go) and of the *)
(* statistics aggregator of its result store (package db).                 *)
(*                                                                         *)
(* Strings are TLA+ strings; where the code looks inside a string          *)
(* (strings.Contains, sort.Strings, ScannedPaths.Less) the model uses the  *)
(* string's bytes, given by the table Chars, and their ASCII codes.        *)
(* Percentages are float64 values rounded to two decimals in the code;     *)
(* the model computes them with the float64 operations of the code and     *)
(* holds a rounded value as its integer number of hundredths (87.50 is     *)
(* 8750).                                                                  *)
(***************************************************************************)
EXTENDS Integers, Sequences, FiniteSets, TLC

\* ------------------------------------------------------------- bounds
\* payloads of the gRPC test case of the scan catalog
MaxPayloads == 1
\* request templates mapped to the placeholder "URLParam"
MaxTemplates == 2
\* record operations in a behaviour of SpecStats
MaxRecords == 3
\* messages of the WebSocket peer that receivedCtr tells apart: the counter
\* stays at this value from there on (it is only compared with the number
\* of vectors, which is smaller)
MaxCounted == 4

\* ------------------------------------------------------------ strings
\* The bytes of every string the model sorts or searches.
Chars(s) ==
  CASE s = "" -> <<>>
    [] s = " " -> <<" ">>
    [] s = "false" -> <<"f", "a", "l", "s", "e">>
    [] s = "owasp" -> <<"o", "w", "a", "s", "p">>
    [] s = "owasp-api" -> <<"o", "w", "a", "s", "p", "-", "a", "p", "i">>
    [] s = "false-pos" -> <<"f", "a", "l", "s", "e", "-", "p", "o", "s">>
    [] s = "xss" -> <<"x", "s", "s">>
    [] s = "sqli" -> <<"s", "q", "l", "i">>
    [] s = "rest" -> <<"r", "e", "s", "t">>
    [] s = "texts" -> <<"t", "e", "x", "t", "s">>
    [] s = "GET" -> <<"G", "E", "T">>
    [] s = "POST" -> <<"P", "O", "S", "T">>
    [] s = "PUT" -> <<"P", "U", "T">>
    [] s = "/ab" -> <<"/", "a", "b">>
    [] s = "/a" -> <<"/", "a">>
    [] s = "/b" -> <<"/", "b">>
    [] s = "GET /a" -> <<"G", "E", "T", " ", "/", "a">>
    [] s = "GET /b" -> <<"G", "E", "T", " ", "/", "b">>
    [] s = "POST /a" -> <<"P", "O", "S", "T", " ", "/", "a">>
    [] s = "PUT /a" -> <<"P", "U", "T", " ", "/", "a">>
    [] s = "refused" -> <<"r", "e", "f", "u", "s", "e", "d">>
    [] s = "timeout" -> <<"t", "i", "m", "e", "o", "u", "t">>
    [] s = "ok" -> <<"o", "k">>
    [] s = "deny" -> <<"d", "e", "n", "y">>
    [] s = "deny ok" -> <<"d", "e", "n", "y", " ", "o", "k">>

\* The ASCII code of a byte.
Code(c) ==
  CASE c = " " -> 32 [] c = "-" -> 45 [] c = "/" -> 47
    [] c = "E" -> 69 [] c = "G" -> 71 [] c = "O" -> 79 [] c = "P" -> 80
    [] c = "S" -> 83 [] c = "T" -> 84 [] c = "U" -> 85
    [] c = "a" -> 97 [] c = "b" -> 98 [] c = "d" -> 100 [] c = "e" -> 101 [] c = "f" -> 102
    [] c = "i" -> 105 [] c = "k" -> 107 [] c = "l" -> 108 [] c = "m" -> 109 [] c = "n" -> 110 [] c = "o" -> 111
    [] c = "p" -> 112 [] c = "q" -> 113 [] c = "r" -> 114 [] c = "s" -> 115
    [] c = "t" -> 116 [] c = "u" -> 117 [] c = "w" -> 119 [] c = "x" -> 120
    [] c = "y" -> 121

RECURSIVE BytesLess(_, _)
\* Go's < on strings: lexicographic on bytes.
BytesLess(x, y) ==
  IF y = <<>> THEN FALSE
  ELSE IF x = <<>> THEN TRUE
  ELSE IF Code(Head(x)) < Code(Head(y)) THEN TRUE
  ELSE IF Code(Head(x)) > Code(Head(y)) THEN FALSE
  ELSE BytesLess(Tail(x), Tail(y))

StrLess(a, b) == BytesLess(Chars(a), Chars(b))

\* strings.Contains(s, sub)
Contains(s, sub) ==
  LET cs == Chars(s)
      cb == Chars(sub)
  IN \E i \in 1..(Len(cs) - Len(cb) + 1) : SubSeq(cs, i, i + Len(cb) - 1) = cb

RECURSIVE InsertSorted(_, _)
InsertSorted(sorted, s) ==
  IF sorted = <<>> THEN <<s>>
  ELSE IF StrLess(s, Head(sorted)) THEN <<s>> \o sorted
  ELSE <<Head(sorted)>> \o InsertSorted(Tail(sorted), s)

RECURSIVE SortStrings(_)
\* sort.Strings: the strings of seq in ascending order.
SortStrings(seq) ==
  IF seq = <<>> THEN <<>>
  ELSE InsertSorted(SortStrings(SubSeq(seq, 1, Len(seq) - 1)), seq[Len(seq)])

\* ------------------------------------------------------- package db
\* float64. A value is a record [neg, m, e] for (-1)^neg * m * 2^e, where
\* the natural number m has at most 53 bits and is held as its digits to
\* the base 2^15, the least significant first, without a leading zero
\* digit (<<>> is 0). Every operation computes the exact result and rounds
\* it to 53 bits, ties to even, as IEEE 754 does. The integers converted
\* are below 2^31 and the divisors below 2^15 in absolute value; no result
\* is near the ends of the exponent range.
RECURSIVE Digits(_)
\* The digits of the natural number n.
Digits(n) == IF n = 0 THEN <<>> ELSE <<n % 32768>> \o Digits(n \div 32768)

RECURSIVE NatOf(_)
\* The natural number of the digits a.
NatOf(a) == IF a = <<>> THEN 0 ELSE Head(a) + 32768 * NatOf(Tail(a))

RECURSIVE Trim(_)
\* a without leading zero digits.
Trim(a) ==
  IF a # <<>> /\ a[Len(a)] = 0 THEN Trim(SubSeq(a, 1, Len(a) - 1)) ELSE a

RECURSIVE MulSmall(_, _, _)
\* a * k + carry for a digit k.
MulSmall(a, k, carry) ==
  IF a = <<>> THEN Digits(carry)
  ELSE LET x == Head(a) * k + carry
       IN <<x % 32768>> \o MulSmall(Tail(a), k, x \div 32768)

RECURSIVE DivSmall(_, _)
\* Quotient q and remainder r of a by a digit d > 0.
DivSmall(a, d) ==
  IF a = <<>> THEN [q |-> <<>>, r |-> 0]
  ELSE LET hi == DivSmall(Tail(a), d)
           x == hi.r * 32768 + Head(a)
       IN [q |-> <<x \div d>> \o hi.q, r |-> x % d]

RECURSIVE AddDigits(_, _, _)
\* a + b + carry
AddDigits(a, b, carry) ==
  IF a = <<>> /\ b = <<>> THEN Digits(carry)
  ELSE LET x == (IF a = <<>> THEN 0 ELSE Head(a))
                + (IF b = <<>> THEN 0 ELSE Head(b)) + carry
       IN <<x % 32768>> \o AddDigits(IF a = <<>> THEN <<>> ELSE Tail(a),
                                     IF b = <<>> THEN <<>> ELSE Tail(b),
                                     x \div 32768)

RECURSIVE SubDigits(_, _, _)
\* a - b - borrow, for a >= b + borrow (leading zeros are left in).
SubDigits(a, b, borrow) ==
  IF a = <<>> THEN <<>>
  ELSE LET x == Head(a) - (IF b = <<>> THEN 0 ELSE Head(b)) - borrow
       IN <<x % 32768>> \o SubDigits(Tail(a), IF b = <<>> THEN <<>> ELSE Tail(b),
                                     IF x < 0 THEN 1 ELSE 0)

RECURSIVE LessDigits(_, _)
\* a < b
LessDigits(a, b) ==
  IF Len(a) # Len(b) THEN Len(a) < Len(b)
  ELSE IF a = <<>> THEN FALSE
  ELSE IF a[Len(a)] # b[Len(b)] THEN a[Len(a)] < b[Len(b)]
  ELSE LessDigits(SubSeq(a, 1, Len(a) - 1), SubSeq(b, 1, Len(b) - 1))

RECURSIVE BitsOf(_)
\* The number of bits of the natural number n.
BitsOf(n) == IF n = 0 THEN 0 ELSE 1 + BitsOf(n \div 2)

\* The number of bits of a.
BitLen(a) == IF a = <<>> THEN 0 ELSE 15 * (Len(a) - 1) + BitsOf(a[Len(a)])

\* a * 2^s
ShiftLeft(a, s) ==
  Trim([i \in 1..(s \div 15) |-> 0] \o MulSmall(a, 2^(s % 15), 0))

\* a \div 2^s, and whether a bit that is set was shifted out.
ShiftRight(a, s) ==
  LET n == s \div 15
      kept == IF n >= Len(a) THEN <<>> ELSE SubSeq(a, n + 1, Len(a))
      d == DivSmall(kept, 2^(s % 15))
  IN [q |-> Trim(d.q),
      sticky |-> d.r # 0 \/ \E i \in 1..n : i <= Len(a) /\ a[i] # 0]

\* The float64 nearest to (-1)^neg * (m + f) * 2^e, where 0 <= f < 1 and
\* sticky tells whether f > 0: round to nearest, ties to even.
Nearest(neg, m, sticky, e) ==
  LET len == BitLen(m)
  IN IF len <= 53 THEN [neg |-> neg /\ m # <<>>, m |-> m, e |-> IF m = <<>> THEN 0 ELSE e]
     ELSE LET sh == ShiftRight(m, len - 54)
              guard == sh.q[1] % 2
              half == Trim(DivSmall(sh.q, 2).q)
              up == guard = 1 /\ (sh.sticky \/ sticky \/ half[1] % 2 = 1)
          IN [neg |-> neg,
              m |-> IF up THEN AddDigits(half, <<1>>, 0) ELSE half,
              e |-> e + (len - 53)]

\* float64(n) for an int n.
Float64(n) ==
  [neg |-> n < 0, m |-> Digits(IF n < 0 THEN -n ELSE n), e |-> 0]

\* x / float64(n) for an int n # 0.
Quo(x, n) ==
  IF x.m = <<>> THEN x
  ELSE LET d == DivSmall(<<0, 0, 0, 0, 0>> \o x.m, IF n < 0 THEN -n ELSE n)
       IN Nearest(x.neg # (n < 0), Trim(d.q), d.r # 0, x.e - 75)

\* x * 100
Times100(x) == Nearest(x.neg, MulSmall(x.m, 100, 0), FALSE, x.e)

\* x + y
Plus(x, y) ==
  LET e == IF x.e < y.e THEN x.e ELSE y.e
      a == ShiftLeft(x.m, x.e - e)
      b == ShiftLeft(y.m, y.e - e)
  IN IF x.m = <<>> THEN y
     ELSE IF y.m = <<>> THEN x
     ELSE IF x.neg = y.neg THEN Nearest(x.neg, AddDigits(a, b, 0), FALSE, e)
     ELSE IF LessDigits(a, b) THEN Nearest(y.neg, Trim(SubDigits(b, a, 0)), FALSE, e)
     ELSE Nearest(x.neg, Trim(SubDigits(a, b, 0)), FALSE, e)

\* math.Round(x) as an int: the nearest integer, halves away from zero.
MathRound(x) ==
  LET n == IF x.e >= 0 THEN NatOf(ShiftLeft(x.m, x.e))
           ELSE LET sh == ShiftRight(x.m, -x.e - 1)
                IN (NatOf(sh.q) \div 2) + (NatOf(sh.q) % 2)
  IN IF x.neg THEN -n ELSE n

\* The float64 values that Round returns are the quotients h / 100 of an
\* integer h by 100; the model holds such a value as h, its hundredths.
\* Round(n): math.Round(n*100) / 100, in hundredths.
Round(n) == MathRound(Times100(n))

\* The float64 of a value held in hundredths.
OfHundredths(h) == Quo(Float64(h), 100)

\* CalculatePercentage(first, second), in hundredths of a percent.
CalculatePercentage(first, second) ==
  IF second = 0 THEN 0
  ELSE Round(Times100(Quo(Float64(first), second)))

\* isPositiveTest that finds no positive set (C14).
isPositiveTest_Never(setName) == FALSE

\* isPositiveTest: the set name contains "false".
isPositiveTest(setName) == Contains(setName, "false")

\* The (set, case) pairs of a catalog: the keys of db.counters.
CaseKeys(cases) == {<<cases[i].Set, cases[i].Name>> : i \in DOMAIN cases}

\* The store after construction for a catalog: every counter is zero and
\* every bucket empty.
NewDB(cases, grpcAvailable) ==
  [counters |-> [k \in CaseKeys(cases) |-> [passed |-> 0, blocked |-> 0, failed |-> 0]],
   blockedTests |-> <<>>,
   passedTests |-> <<>>,
   naTests |-> <<>>,
   failedTests |-> <<>>,
   scannedPaths |-> {},
   IsGrpcAvailable |-> grpcAvailable]

\* db.UpdatePassedTests: one more passed request of the case, the Info
\* appended to the passed bucket.
UpdatePassedTests(d, t) ==
  [d EXCEPT !.counters[<<t.Set, t.Case>>].passed = @ + 1,
            !.passedTests = Append(@, t)]

\* db.UpdateBlockedTests
UpdateBlockedTests(d, t) ==
  [d EXCEPT !.counters[<<t.Set, t.Case>>].blocked = @ + 1,
            !.blockedTests = Append(@, t)]

\* db.UpdateFailedTests
UpdateFailedTests(d, t) ==
  [d EXCEPT !.counters[<<t.Set, t.Case>>].failed = @ + 1,
            !.failedTests = Append(@, t)]

\* UpdateNaTests that leaves the counters alone (C22).
UpdateNaTests_Uncounted(d, t, ignoreUnresolved, nonBlockedAsPassed, isTruePositive) ==
  [d EXCEPT !.naTests = Append(@, t)]

\* db.UpdateNaTests: the Info goes to the unresolved bucket; the request is
\* counted as passed when a counting policy is set and the case is a true
\* positive, and as blocked otherwise (GetStatistics subtracts it again).
UpdateNaTests(d, t, ignoreUnresolved, nonBlockedAsPassed, isTruePositive) ==
  IF (ignoreUnresolved \/ nonBlockedAsPassed) /\ isTruePositive
  THEN [d EXCEPT !.counters[<<t.Set, t.Case>>].passed = @ + 1,
                 !.naTests = Append(@, t)]
  ELSE [d EXCEPT !.counters[<<t.Set, t.Case>>].blocked = @ + 1,
                 !.naTests = Append(@, t)]

\* db.AddToScannedPaths: the set of (method, path) pairs.
AddToScannedPaths(d, method, path) ==
  [d EXCEPT !.scannedPaths = @ \cup {[Method |-> method, Path |-> path]}]

\* PathLess that compares the methods before the paths (C30).
PathLess_MethodFirst(p, q) ==
  IF StrLess(q.Method, p.Method) THEN FALSE
  ELSE IF StrLess(p.Method, q.Method) THEN TRUE
  ELSE StrLess(p.Path, q.Path)

\* ScannedPaths.Less
PathLess(p, q) ==
  IF StrLess(q.Path, p.Path) THEN FALSE
  ELSE IF StrLess(p.Path, q.Path) THEN TRUE
  ELSE StrLess(p.Method, q.Method)

RECURSIVE SortPaths(_)
\* ScannedPaths.Sort over the pairs collected from the map.
SortPaths(S) ==
  IF S = {} THEN <<>>
  ELSE LET m == CHOOSE p \in S : \A q \in S \ {p} : ~PathLess(q, p)
       IN <<m>> \o SortPaths(S \ {m})

RECURSIVE SortedStringsOf(_)
\* The keys of a map collected in iteration order and sorted by sort.Strings.
SortedStringsOf(S) ==
  IF S = {} THEN <<>>
  ELSE LET m == CHOOSE s \in S : \A q \in S \ {s} : ~StrLess(q, s)
       IN <<m>> \o SortedStringsOf(S \ {m})

\* CountUnresolved that counts whatever the flags are (C11).
CountUnresolved_Counted(naTests, n, ignoreUnresolved, nonBlockedAsPassed) ==
  LET keys == {<<naTests[i].Set, naTests[i].Case>> : i \in 1..n}
  IN [k \in keys |->
        Cardinality({i \in 1..n : <<naTests[i].Set, naTests[i].Case>> = k})]

RECURSIVE CountUnresolved(_, _, _, _)
\* GetStatistics, first loop: unresolvedRequestsNumber[set][case] after the
\* first n unresolved tests.
CountUnresolved(naTests, n, ignoreUnresolved, nonBlockedAsPassed) ==
  IF n = 0 THEN [k \in {} |-> 0]
  ELSE LET prev == CountUnresolved(naTests, n - 1, ignoreUnresolved, nonBlockedAsPassed)
           k == <<naTests[n].Set, naTests[n].Case>>
           old == IF k \in DOMAIN prev THEN prev[k] ELSE 0
           new == IF ignoreUnresolved \/ nonBlockedAsPassed THEN 0 ELSE old + 1
       IN [x \in DOMAIN prev \cup {k} |-> IF x = k THEN new ELSE prev[x]]

\* A read of the two-level map: a missing key reads as zero.
MapGet(m, k) == IF k \in DOMAIN m THEN m[k] ELSE 0

RECURSIVE KeysInOrder(_, _)
\* The (set, case) keys of db.counters in the order of GetStatistics' two
\* nested loops: sets sorted by name, the cases of a set sorted by name.
KeysInOrder(keys, sets) ==
  IF sets = <<>> THEN <<>>
  ELSE LET s == Head(sets)
           cs == SortedStringsOf({k[2] : k \in {x \in keys : x[1] = s}})
       IN [i \in 1..Len(cs) |-> <<s, cs[i]>>] \o KeysInOrder(keys, Tail(sets))

\* AdjustBlocked that subtracts only when a flag is set (C23).
AdjustBlocked_OnFlags(blockedRequests, unresolvedRequests, ignoreUnresolved, nonBlockedAsPassed) ==
  IF ignoreUnresolved \/ nonBlockedAsPassed
  THEN blockedRequests - unresolvedRequests
  ELSE blockedRequests

\* AdjustBlocked without the subtraction (C2).
AdjustBlocked_Unadjusted(blockedRequests, unresolvedRequests, ignoreUnresolved, nonBlockedAsPassed) ==
  blockedRequests

\* The blocked count of a row: GetStatistics subtracts the unresolved
\* requests unless both flags are set.
AdjustBlocked(blockedRequests, unresolvedRequests, ignoreUnresolved, nonBlockedAsPassed) ==
  IF ~ignoreUnresolved \/ ~nonBlockedAsPassed
  THEN blockedRequests - unresolvedRequests
  ELSE blockedRequests

\* CountsForScore that lets every negative case in (C9).
CountsForScore_Always(totalResolvedRequests) == TRUE

\* Whether a negative case enters the WAF score.
CountsForScore(totalResolvedRequests) == totalResolvedRequests # 0

\* SummaryRow that totals the requests after the unresolved ones are
\* subtracted from the blocked ones (C31).
SummaryRow_SentAfterAdjust(acc, d, key, unresolvedRequestsNumber, ignoreUnresolved, nonBlockedAsPassed) ==
  LET unresolvedRequests == MapGet(unresolvedRequestsNumber, key)
      passedRequests == d.counters[key].passed
      failedRequests == d.counters[key].failed
      blockedRequests == AdjustBlocked(d.counters[key].blocked, unresolvedRequests,
                                       ignoreUnresolved, nonBlockedAsPassed)
      totalRequests == passedRequests + blockedRequests + failedRequests
      totalResolvedRequests == passedRequests + blockedRequests
      row == [TestSet |-> key[1], TestCase |-> key[2], Percentage |-> 0,
              Sent |-> totalRequests, Blocked |-> blockedRequests,
              Bypassed |-> passedRequests, Unresolved |-> unresolvedRequests,
              Failed |-> failedRequests]
      a1 == [acc EXCEPT !.OverallRequests = @ + totalRequests]
  IN IF isPositiveTest(key[1])
     THEN [a1 EXCEPT
             !.PositiveTests.BlockedRequestsNumber = @ + blockedRequests,
             !.PositiveTests.BypassedRequestsNumber = @ + passedRequests,
             !.PositiveTests.UnresolvedRequestsNumber = @ + unresolvedRequests,
             !.PositiveTests.FailedRequestsNumber = @ + failedRequests,
             !.PositiveTests.SummaryTable =
                Append(@, [row EXCEPT !.Percentage =
                             CalculatePercentage(passedRequests, totalResolvedRequests)])]
     ELSE LET blockedRequestsPercentage ==
                CalculatePercentage(blockedRequests, totalResolvedRequests)
              a2 == [a1 EXCEPT
                       !.BlockedRequestsNumber = @ + blockedRequests,
                       !.BypassedRequestsNumber = @ + passedRequests,
                       !.UnresolvedRequestsNumber = @ + unresolvedRequests,
                       !.FailedRequestsNumber = @ + failedRequests,
                       !.SummaryTable = Append(@, [row EXCEPT !.Percentage = blockedRequestsPercentage])]
          IN IF CountsForScore(totalResolvedRequests)
             THEN [a2 EXCEPT
                     !.overallCompletedTestCases = @ + 1,
                     !.overallPassedRequestsPercentage =
                        Plus(@, OfHundredths(blockedRequestsPercentage))]
             ELSE a2

\* GetStatistics, the body of the loop over test cases: the row of one
\* (set, case) added to the statistics s (acc carries the two locals
\* overallCompletedTestCases and overallPassedRequestsPercentage).
SummaryRow(acc, d, key, unresolvedRequestsNumber, ignoreUnresolved, nonBlockedAsPassed) ==
  LET unresolvedRequests == MapGet(unresolvedRequestsNumber, key)
      passedRequests == d.counters[key].passed
      failedRequests == d.counters[key].failed
      totalRequests == passedRequests + d.counters[key].blocked + failedRequests
      blockedRequests == AdjustBlocked(d.counters[key].blocked, unresolvedRequests,
                                       ignoreUnresolved, nonBlockedAsPassed)
      totalResolvedRequests == passedRequests + blockedRequests
      row == [TestSet |-> key[1], TestCase |-> key[2], Percentage |-> 0,
              Sent |-> totalRequests, Blocked |-> blockedRequests,
              Bypassed |-> passedRequests, Unresolved |-> unresolvedRequests,
              Failed |-> failedRequests]
      a1 == [acc EXCEPT !.OverallRequests = @ + totalRequests]
  IN IF isPositiveTest(key[1])
     THEN [a1 EXCEPT
             !.PositiveTests.BlockedRequestsNumber = @ + blockedRequests,
             !.PositiveTests.BypassedRequestsNumber = @ + passedRequests,
             !.PositiveTests.UnresolvedRequestsNumber = @ + unresolvedRequests,
             !.PositiveTests.FailedRequestsNumber = @ + failedRequests,
             !.PositiveTests.SummaryTable =
                Append(@, [row EXCEPT !.Percentage =
                             CalculatePercentage(passedRequests, totalResolvedRequests)])]
     ELSE LET blockedRequestsPercentage ==
                CalculatePercentage(blockedRequests, totalResolvedRequests)
              a2 == [a1 EXCEPT
                       !.BlockedRequestsNumber = @ + blockedRequests,
                       !.BypassedRequestsNumber = @ + passedRequests,
                       !.UnresolvedRequestsNumber = @ + unresolvedRequests,
                       !.FailedRequestsNumber = @ + failedRequests,
                       !.SummaryTable = Append(@, [row EXCEPT !.Percentage = blockedRequestsPercentage])]
          IN IF CountsForScore(totalResolvedRequests)
             THEN [a2 EXCEPT
                     !.overallCompletedTestCases = @ + 1,
                     !.overallPassedRequestsPercentage =
                        Plus(@, OfHundredths(blockedRequestsPercentage))]
             ELSE a2

RECURSIVE SummaryRows(_, _, _, _, _, _)
\* GetStatistics, the loops over sorted test sets and test cases.
SummaryRows(acc, d, keys, unresolvedRequestsNumber, ignoreUnresolved, nonBlockedAsPassed) ==
  IF keys = <<>> THEN acc
  ELSE SummaryRows(
         SummaryRow(acc, d, Head(keys), unresolvedRequestsNumber,
                    ignoreUnresolved, nonBlockedAsPassed),
         d, Tail(keys), unresolvedRequestsNumber, ignoreUnresolved, nonBlockedAsPassed)

\* The Statistics record before GetStatistics fills it in (Go zero values),
\* with the two locals of the row loop.
EmptyStatistics ==
  [IsGrpcAvailable |-> FALSE, Paths |-> <<>>,
   SummaryTable |-> <<>>, Blocked |-> <<>>, Bypasses |-> <<>>,
   Unresolved |-> <<>>, Failed |-> <<>>,
   PositiveTests |->
     [SummaryTable |-> <<>>, FalsePositive |-> <<>>, TruePositive |-> <<>>,
      Unresolved |-> <<>>, Failed |-> <<>>,
      AllRequestsNumber |-> 0, BlockedRequestsNumber |-> 0,
      BypassedRequestsNumber |-> 0, UnresolvedRequestsNumber |-> 0,
      FailedRequestsNumber |-> 0, ResolvedRequestsNumber |-> 0,
      UnresolvedRequestsPercentage |-> 0, ResolvedFalseRequestsPercentage |-> 0,
      ResolvedTrueRequestsPercentage |-> 0, FailedRequestsPercentage |-> 0],
   AllRequestsNumber |-> 0, BlockedRequestsNumber |-> 0,
   BypassedRequestsNumber |-> 0, UnresolvedRequestsNumber |-> 0,
   FailedRequestsNumber |-> 0, ResolvedRequestsNumber |-> 0,
   UnresolvedRequestsPercentage |-> 0, ResolvedBlockedRequestsPercentage |-> 0,
   ResolvedBypassedRequestsPercentage |-> 0, FailedRequestsPercentage |-> 0,
   OverallRequests |-> 0, WafScore |-> 0,
   overallCompletedTestCases |-> 0,
   overallPassedRequestsPercentage |-> Float64(0)]

\* WafScoreOf without the division by the number of cases (C10).
WafScoreOf_Sum(overallPassedRequestsPercentage, overallCompletedTestCases) ==
  Round(overallPassedRequestsPercentage)

\* GetStatistics, the WAF score from the two locals of the row loop.
WafScoreOf(overallPassedRequestsPercentage, overallCompletedTestCases) ==
  IF overallCompletedTestCases # 0
  THEN Round(Quo(overallPassedRequestsPercentage, overallCompletedTestCases))
  ELSE 0

\* GetStatistics, the totals and percentages computed after the row loop.
Totals(s) ==
  LET all == s.BlockedRequestsNumber + s.BypassedRequestsNumber
             + s.UnresolvedRequestsNumber + s.FailedRequestsNumber
      resolved == s.BlockedRequestsNumber + s.BypassedRequestsNumber
      pt == s.PositiveTests
      pall == pt.BlockedRequestsNumber + pt.BypassedRequestsNumber
              + pt.UnresolvedRequestsNumber + pt.FailedRequestsNumber
      presolved == pt.BlockedRequestsNumber + pt.BypassedRequestsNumber
  IN [s EXCEPT
        !.WafScore = WafScoreOf(s.overallPassedRequestsPercentage,
                                s.overallCompletedTestCases),
        !.AllRequestsNumber = all,
        !.ResolvedRequestsNumber = resolved,
        !.PositiveTests.AllRequestsNumber = pall,
        !.PositiveTests.ResolvedRequestsNumber = presolved,
        !.UnresolvedRequestsPercentage =
           CalculatePercentage(s.UnresolvedRequestsNumber, all),
        !.ResolvedBlockedRequestsPercentage =
           CalculatePercentage(s.BlockedRequestsNumber, resolved),
        !.ResolvedBypassedRequestsPercentage =
           CalculatePercentage(s.BypassedRequestsNumber, resolved),
        !.FailedRequestsPercentage =
           CalculatePercentage(s.FailedRequestsNumber, all),
        !.PositiveTests.UnresolvedRequestsPercentage =
           CalculatePercentage(pt.UnresolvedRequestsNumber, pall),
        !.PositiveTests.ResolvedFalseRequestsPercentage =
           CalculatePercentage(pt.BlockedRequestsNumber, presolved),
        !.PositiveTests.ResolvedTrueRequestsPercentage =
           CalculatePercentage(pt.BypassedRequestsNumber, presolved),
        !.PositiveTests.FailedRequestsPercentage =
           CalculatePercentage(pt.FailedRequestsNumber, pall)]

\* SortBucket that reverses the additionalInfo instead of sorting it (C15).
SortBucket_Reversed(bucket) ==
  [i \in DOMAIN bucket |->
     [bucket[i] EXCEPT !.AdditionalInfo =
        [k \in DOMAIN @ |-> @[Len(@) + 1 - k]]]]

\* sort.Strings(test.AdditionalInfo) on every Info of a bucket, in place.
SortBucket(bucket) ==
  [i \in DOMAIN bucket |->
     [bucket[i] EXCEPT !.AdditionalInfo = SortStrings(@)]]

\* The TestDetails of an Info.
TestDetailsOf(t) ==
  [Payload |-> t.Payload, TestCase |-> t.Case, TestSet |-> t.Set,
   Encoder |-> t.Encoder, Placeholder |-> t.Placeholder,
   ResponseStatusCode |-> t.ResponseStatusCode,
   AdditionalInfo |-> t.AdditionalInfo, Type |-> t.Type]

\* The FailedDetails of an Info.
FailedDetailsOf(t) ==
  [Payload |-> t.Payload, TestCase |-> t.Case, TestSet |-> t.Set,
   Encoder |-> t.Encoder, Placeholder |-> t.Placeholder,
   Reason |-> t.AdditionalInfo, Type |-> t.Type]

RECURSIVE DetailsOf(_, _, _)
\* The details, in bucket order, of the tests of a bucket whose set is
\* positive (positive = TRUE) or negative (positive = FALSE).
DetailsOf(bucket, positive, failed) ==
  IF bucket = <<>> THEN <<>>
  ELSE (IF isPositiveTest(Head(bucket).Set) = positive
        THEN <<IF failed THEN FailedDetailsOf(Head(bucket))
                         ELSE TestDetailsOf(Head(bucket))>>
        ELSE <<>>) \o DetailsOf(Tail(bucket), positive, failed)

\* DetailLists that leaves the unresolved tests in the Unresolved lists (C12).
DetailLists_Unmoved(s, blocked, passed, unresolved, failed, ignoreUnresolved, nonBlockedAsPassed) ==
  [s EXCEPT
     !.Blocked = DetailsOf(blocked, FALSE, FALSE),
     !.PositiveTests.FalsePositive = DetailsOf(blocked, TRUE, FALSE),
     !.Bypasses = DetailsOf(passed, FALSE, FALSE),
     !.PositiveTests.TruePositive = DetailsOf(passed, TRUE, FALSE),
     !.Unresolved = DetailsOf(unresolved, FALSE, FALSE),
     !.PositiveTests.Unresolved = DetailsOf(unresolved, TRUE, FALSE),
     !.Failed = DetailsOf(failed, FALSE, TRUE),
     !.PositiveTests.Failed = DetailsOf(failed, TRUE, TRUE)]

\* GetStatistics, the four loops over the buckets: the detail lists.
\* blocked, passed and unresolved are the buckets after their in-place sort.
DetailLists(s, blocked, passed, unresolved, failed, ignoreUnresolved, nonBlockedAsPassed) ==
  LET asPassed == ignoreUnresolved \/ nonBlockedAsPassed
  IN [s EXCEPT
        !.Blocked = DetailsOf(blocked, FALSE, FALSE),
        !.PositiveTests.FalsePositive =
           DetailsOf(blocked, TRUE, FALSE)
           \o (IF asPassed THEN DetailsOf(unresolved, TRUE, FALSE) ELSE <<>>),
        !.Bypasses =
           DetailsOf(passed, FALSE, FALSE)
           \o (IF asPassed THEN DetailsOf(unresolved, FALSE, FALSE) ELSE <<>>),
        !.PositiveTests.TruePositive = DetailsOf(passed, TRUE, FALSE),
        !.Unresolved =
           IF asPassed THEN <<>> ELSE DetailsOf(unresolved, FALSE, FALSE),
        !.PositiveTests.Unresolved =
           IF asPassed THEN <<>> ELSE DetailsOf(unresolved, TRUE, FALSE),
        !.Failed = DetailsOf(failed, FALSE, TRUE),
        !.PositiveTests.Failed = DetailsOf(failed, TRUE, TRUE)]

\* db.GetStatistics(ignoreUnresolved, nonBlockedAsPassed): the Statistics
\* (field stats) and the store it leaves behind (field db: the
\* additionalInfo of the blocked, passed and unresolved tests is sorted in
\* place).
GetStatistics(d, ignoreUnresolved, nonBlockedAsPassed) ==
  LET unresolvedRequestsNumber ==
        CountUnresolved(d.naTests, Len(d.naTests), ignoreUnresolved, nonBlockedAsPassed)
      keys == KeysInOrder(DOMAIN d.counters,
                          SortedStringsOf({k[1] : k \in DOMAIN d.counters}))
      s0 == [EmptyStatistics EXCEPT !.IsGrpcAvailable = d.IsGrpcAvailable]
      s1 == SummaryRows(s0, d, keys, unresolvedRequestsNumber,
                        ignoreUnresolved, nonBlockedAsPassed)
      s2 == Totals(s1)
      d1 == [d EXCEPT !.blockedTests = SortBucket(@),
                      !.passedTests = SortBucket(@),
                      !.naTests = SortBucket(@)]
      s3 == DetailLists(s2, d1.blockedTests, d1.passedTests, d1.naTests,
                        d1.failedTests, ignoreUnresolved, nonBlockedAsPassed)
      s4 == [s3 EXCEPT !.Paths = SortPaths(d.scannedPaths)]
  IN [stats |-> s4, db |-> d1]

\* --------------------------------------------------- package scanner
\* regexp.MatchString(pattern, body) for the literal patterns of the
\* model: the pattern occurs in the body.
MatchString(pattern, body) == Contains(body, pattern)

\* Scanner.checkBlocking under configuration c
checkBlocking(c, body, statusCode) ==
  IF c.BlockRegex # "" THEN MatchString(c.BlockRegex, body)
  ELSE statusCode = c.BlockStatusCode

\* Scanner.checkPass under configuration c
checkPass(c, body, statusCode) ==
  IF c.PassRegex # "" THEN MatchString(c.PassRegex, body)
  ELSE \E i \in DOMAIN c.PassStatusCode : statusCode = c.PassStatusCode[i]

\* errors.Is(sendErr, io.EOF) || errors.Is(sendErr, syscall.ECONNRESET)
IsReset(sendErr) == sendErr = "EOF" \/ sendErr = "ECONNRESET"

\* const preCheckVector
preCheckVector == "<script>alert('union select password from users')</script>"

\* Scanner.preCheck when SendPayload answers r = (err, status, body).
preCheck(c, r) ==
  IF r.err # "nil" THEN [blocked |-> FALSE, statusCode |-> 0, err |-> r.err]
  ELSE [blocked |-> checkBlocking(c, r.body, r.status),
        statusCode |-> r.status, err |-> "nil"]

\* WAFBlockCheck that takes a reset of the attack probe for a block without
\* the benign probe (C18).
WAFBlockCheck_NoBenign(c, attack, benign) ==
  IF c.SkipWAFBlockCheck THEN [err |-> "nil", probes |-> <<>>]
  ELSE
    LET first == preCheck(c, attack)
        sent1 == <<[payload |-> preCheckVector, resp |-> attack]>>
    IN IF first.err # "nil" /\ ~(c.BlockConnReset /\ IsReset(first.err))
         THEN [err |-> "running pre-check", probes |-> sent1]
       ELSE IF first.err = "nil" /\ ~first.blocked
         THEN [err |-> "WAF was not detected", probes |-> sent1]
       ELSE [err |-> "nil", probes |-> sent1]

\* Scanner.WAFBlockCheck under configuration c, when the target answers
\* the attack probe with attack and a benign probe with benign: the error
\* returned and the probes sent, each with its answer.
WAFBlockCheck(c, attack, benign) ==
  IF c.SkipWAFBlockCheck THEN [err |-> "nil", probes |-> <<>>]
  ELSE
    LET first == preCheck(c, attack)
        second == preCheck(c, benign)
        sent1 == <<[payload |-> preCheckVector, resp |-> attack]>>
        sent2 == Append(sent1, [payload |-> "", resp |-> benign])
    IN IF first.err # "nil"
         THEN IF c.BlockConnReset /\ IsReset(first.err)
                THEN IF second.err # "nil"
                       THEN [err |-> "running benign request pre-check",
                             probes |-> sent2]
                     ELSE IF ~second.blocked
                       THEN [err |-> "nil", probes |-> sent2]
                     ELSE [err |-> "WAF was not detected", probes |-> sent2]
              ELSE [err |-> "running pre-check", probes |-> sent1]
       ELSE IF ~first.blocked
         THEN [err |-> "WAF was not detected", probes |-> sent1]
       ELSE [err |-> "nil", probes |-> sent1]

\* testWork.toInfo
toInfo(w, respStatusCode) ==
  [Set |-> w.setName, Case |-> w.caseName, Payload |-> w.payload,
   Encoder |-> w.encoder, Placeholder |-> w.placeholder,
   ResponseStatusCode |-> respStatusCode, Type |-> w.testType,
   AdditionalInfo |-> <<>>]

\* The four local Info pointers of scanURL, all nil. A *db.Info is the
\* position of the Info in its bucket (the buckets only grow at the end),
\* and 0 is nil.
NilPtrs ==
  [passedTest |-> 0, blockedTest |-> 0, unresolvedTest |-> 0, failedTest |-> 0]

\* test.AdditionalInfo = append(test.AdditionalInfo, s) through the pointer
\* test to an Info of a bucket.
AppendInfo(bucket, test, s) ==
  [bucket EXCEPT ![test].AdditionalInfo = Append(@, s)]

\* updateDB appends nothing.
NoAppend == [bucket |-> "", test |-> 0, s |-> ""]

\* updateDB appends s to the AdditionalInfo of the Info that the pointer
\* test points to in a bucket; through a nil pointer the append panics.
Pending(bucket, test, s) == [bucket |-> bucket, test |-> test, s |-> s]

\* The store d after the append a.
Appended(d, a) == [d EXCEPT ![a.bucket] = AppendInfo(@, a.test, a.s)]

\* What updateDB does in its two steps: under the lock of the store the
\* record operation leaves the store as d and the four pointers as p;
\* after the lock is released the append a is made; err is the error
\* returned.
Returned(d, p, err, a) == [db |-> d, ptrs |-> p, err |-> err, append |-> a]

\* RecordUnresolved that records as if no counting policy were set (C13).
RecordUnresolved_Unflagged(c, d, w, p, info, additionalInfo) ==
  LET d1 == IF p.unresolvedTest = 0
            THEN UpdateNaTests(d, info, FALSE, FALSE, w.isTruePositive)
            ELSE d
      p1 == IF p.unresolvedTest = 0
            THEN [p EXCEPT !.unresolvedTest = Len(d1.naTests)]
            ELSE p
  IN IF additionalInfo # ""
     THEN Returned(d1, p1, "nil",
                   Pending("naTests", p.unresolvedTest, additionalInfo))
     ELSE Returned(d1, p1, "nil", NoAppend)

\* updateDB, the unresolved branches (lines 468-476 and 567-573): the Info
\* is recorded through updUnresolvedTest, the additional info is then
\* appended through the parameter unresolvedTest, which is nil on the
\* first call.
RecordUnresolved(c, d, w, p, info, additionalInfo) ==
  LET d1 == IF p.unresolvedTest = 0
            THEN UpdateNaTests(d, info, c.IgnoreUnresolved,
                               c.NonBlockedAsPassed, w.isTruePositive)
            ELSE d
      p1 == IF p.unresolvedTest = 0
            THEN [p EXCEPT !.unresolvedTest = Len(d1.naTests)]
            ELSE p
  IN IF additionalInfo # ""
     THEN Returned(d1, p1, "nil",
                   Pending("naTests", p.unresolvedTest, additionalInfo))
     ELSE Returned(d1, p1, "nil", NoAppend)

\* RecordFailed that records nothing (C1).
RecordFailed_Dropped(d, p, info, sendErr, additionalInfo) ==
  Returned(d, p, "nil", NoAppend)

\* updateDB, the failed branch (lines 479-489): the error message is
\* appended only when additionalInfo is not empty.
RecordFailed(d, p, info, sendErr, additionalInfo) ==
  LET d1 == IF p.failedTest = 0 THEN UpdateFailedTests(d, info) ELSE d
      p1 == IF p.failedTest = 0 THEN [p EXCEPT !.failedTest = Len(d1.failedTests)]
            ELSE p
  IN IF additionalInfo # ""
     THEN Returned(d1, p1, "nil", Pending("failedTests", p1.failedTest, sendErr))
     ELSE Returned(d1, p1, "nil", NoAppend)

\* RecordBlocked that creates an Info on every call (C4).
RecordBlocked_Again(d, p, info, additionalInfo) ==
  LET d1 == UpdateBlockedTests(d, info)
      p1 == [p EXCEPT !.blockedTest = Len(d1.blockedTests)]
  IN IF additionalInfo # ""
     THEN Returned(d1, p1, "nil",
                   Pending("blockedTests", p1.blockedTest, additionalInfo))
     ELSE Returned(d1, p1, "nil", NoAppend)

\* updateDB, a blocked record (lines 554-560 and 576-582)
RecordBlocked(d, p, info, additionalInfo) ==
  LET d1 == IF p.blockedTest = 0 THEN UpdateBlockedTests(d, info) ELSE d
      p1 == IF p.blockedTest = 0 THEN [p EXCEPT !.blockedTest = Len(d1.blockedTests)]
            ELSE p
  IN IF additionalInfo # ""
     THEN Returned(d1, p1, "nil",
                   Pending("blockedTests", p1.blockedTest, additionalInfo))
     ELSE Returned(d1, p1, "nil", NoAppend)

\* RecordPassed that calls the record operation on every request (C24).
RecordPassed_Again(d, p, info, additionalInfo) ==
  LET d1 == UpdatePassedTests(d, info)
      p1 == [p EXCEPT !.passedTest = Len(d1.passedTests)]
  IN IF additionalInfo # ""
     THEN Returned(d1, p1, "nil",
                   Pending("passedTests", p1.passedTest, additionalInfo))
     ELSE Returned(d1, p1, "nil", NoAppend)

\* updateDB, a passed record (lines 546-552 and 584-590)
RecordPassed(d, p, info, additionalInfo) ==
  LET d1 == IF p.passedTest = 0 THEN UpdatePassedTests(d, info) ELSE d
      p1 == IF p.passedTest = 0 THEN [p EXCEPT !.passedTest = Len(d1.passedTests)]
            ELSE p
  IN IF additionalInfo # ""
     THEN Returned(d1, p1, "nil",
                   Pending("passedTests", p1.passedTest, additionalInfo))
     ELSE Returned(d1, p1, "nil", NoAppend)

\* Outcome in which the block predicate wins when both hold (C5).
Outcome_BlockWins(blocked, passed) ==
  IF ~blocked /\ ~passed THEN "unresolved"
  ELSE IF blocked THEN "blocked"
  ELSE "passed"

\* updateDB, lines 566-592: the outcome of a response by the two predicates.
Outcome(blocked, passed) ==
  IF (blocked /\ passed) \/ (~blocked /\ ~passed) THEN "unresolved"
  ELSE IF blocked THEN "blocked"
  ELSE "passed"

\* ValidatedOutcome that does not look at the block predicate (C8).
ValidatedOutcome_Unblocked(validationOK, blocked) ==
  IF validationOK THEN "passed" ELSE "blocked"

\* updateDB, line 545: the outcome of a response under OpenAPI validation.
ValidatedOutcome(validationOK, blocked) ==
  IF validationOK /\ ~blocked THEN "passed" ELSE "blocked"

\* updateDB that sends gRPC responses through the router and the validator
\* as well (C28).
updateDB_ValidatesGRPC(c, templates, d, w, p, respStatusCode, respBody, sendErr, additionalInfo, isGRPC, route1, route2, validationOK) ==
  LET info == toInfo(w, respStatusCode)
      blockedByReset == sendErr # "nil" /\ IsReset(sendErr) /\ c.BlockConnReset
      blocked == IF blockedByReset THEN TRUE
                 ELSE checkBlocking(c, respBody, respStatusCode)
      passed == IF blockedByReset THEN FALSE
                ELSE checkPass(c, respBody, respStatusCode)
  IN IF sendErr # "nil" /\ IsReset(sendErr) /\ ~c.BlockConnReset
     THEN RecordUnresolved(c, d, w, p, info, additionalInfo)
     ELSE IF sendErr # "nil" /\ ~IsReset(sendErr)
     THEN RecordFailed(d, p, info, sendErr, additionalInfo)
     ELSE IF templates
     THEN IF ~route1 /\ (~Contains(additionalInfo, " ") \/ ~route2)
          THEN Returned(d, NilPtrs, "couldn't find request route", NoAppend)
          ELSE IF ValidatedOutcome(validationOK, blocked) = "passed"
               THEN RecordPassed(d, p, info, additionalInfo)
               ELSE RecordBlocked(d, p, info, additionalInfo)
     ELSE IF Outcome(blocked, passed) = "unresolved"
          THEN RecordUnresolved(c, d, w, p, info, additionalInfo)
          ELSE IF Outcome(blocked, passed) = "blocked"
               THEN RecordBlocked(d, p, info, additionalInfo)
               ELSE RecordPassed(d, p, info, additionalInfo)

\* Scanner.updateDB under configuration c; templates tells whether
\* s.requestTemplates is not nil. The router and the OpenAPI validator are
\* external: route1 and route2 tell whether the first and the second
\* FindRoute succeed, validationOK whether ValidateResponse returns nil.
updateDB(c, templates, d, w, p, respStatusCode, respBody, sendErr, additionalInfo, isGRPC, route1, route2, validationOK) ==
  LET info == toInfo(w, respStatusCode)
      blockedByReset == sendErr # "nil" /\ IsReset(sendErr) /\ c.BlockConnReset
      blocked == IF blockedByReset THEN TRUE
                 ELSE checkBlocking(c, respBody, respStatusCode)
      passed == IF blockedByReset THEN FALSE
                ELSE checkPass(c, respBody, respStatusCode)
  IN IF sendErr # "nil" /\ IsReset(sendErr) /\ ~c.BlockConnReset
     THEN RecordUnresolved(c, d, w, p, info, additionalInfo)
     ELSE IF sendErr # "nil" /\ ~IsReset(sendErr)
     THEN RecordFailed(d, p, info, sendErr, additionalInfo)
     ELSE IF templates /\ ~isGRPC
     THEN IF ~route1 /\ (~Contains(additionalInfo, " ") \/ ~route2)
          THEN Returned(d, NilPtrs, "couldn't find request route", NoAppend)
          ELSE IF ValidatedOutcome(validationOK, blocked) = "passed"
               THEN RecordPassed(d, p, info, additionalInfo)
               ELSE RecordBlocked(d, p, info, additionalInfo)
     ELSE IF Outcome(blocked, passed) = "unresolved"
          THEN RecordUnresolved(c, d, w, p, info, additionalInfo)
          ELSE IF Outcome(blocked, passed) = "blocked"
               THEN RecordBlocked(d, p, info, additionalInfo)
               ELSE RecordPassed(d, p, info, additionalInfo)

\* ------------------------------------------------------ the scan run
VARIABLES
  cfg,               \* the configuration record (config.Config)
  isTestEnv,         \* Scanner.isTestEnv: the requests carry a test header
  requestTemplates,  \* Scanner.requestTemplates: nil, or placeholder -> templates
  grpcAvailable,     \* grpcConn.IsAvailable()
  target,            \* what the world outside can answer: the responses of a
                     \* send (err, status, body), the results of the router and
                     \* the validator, of encoder.Apply and of CreateRequest
  testCases,         \* db.GetTestCases(): the catalog
  db,                \* the result store
  testChan,          \* the buffered channel of produceTests
  chanClosed,        \* close(testChan) has run
  producer,          \* the producer goroutine: its position in the catalog
  ctxDone,           \* the context of Run is cancelled
  workers,           \* the worker goroutines of Run
  bar,               \* the progress bar's count
  crashed,           \* the process has exited after the panic of a goroutine
  runErr,            \* what Run returned, "running" before
  stats,             \* the Statistics computed after Run: <<>> before
  hist,              \* per variant: how often it was received, the sends
                     \* called for it, what scanURL returned
  last,              \* the latest request: its variant, what the target, the
                     \* router and the validator answered, its additionalInfo
  wafCheck,          \* the WAF pre-check: whether it has returned, the probes
                     \* it sent with their answers, the error it returned
  ws                 \* the WebSocket pre-check: its position, the vector to
                     \* write, its reader goroutine with receivedCtr and the
                     \* read deadline, and what it returned

vars ==
  <<cfg, isTestEnv, requestTemplates, grpcAvailable, target, testCases, db,
    testChan, chanClosed, producer, ctxDone, workers, bar, crashed, runErr, stats, hist,
    last, wafCheck, ws>>

\* encoder.DefaultGRPCEncoder.GetName()
DefaultGRPCEncoder == "gRPC"

\* produceTests, lines 329-336: the value of the test header of a work
\* item, empty outside the test environment.
TestHeaderValue(t, placeholder, e) ==
  IF isTestEnv
  THEN "set=" \o t.Set \o ",name=" \o t.Name \o ",placeholder=" \o placeholder
       \o ",encoder=" \o e
  ELSE ""

\* WorkOfCase with the loop over placeholders outside the loop over
\* encoders (C21).
WorkOfCase_PlaceholdersFirst(t) ==
  LET ne == Len(t.Encoders)
      np == Len(t.Placeholders)
  IN [i \in 1..(Len(t.Payloads) * ne * np) |->
        [setName |-> t.Set, caseName |-> t.Name,
         payload |-> t.Payloads[((i - 1) \div (ne * np)) + 1],
         encoder |-> t.Encoders[((i - 1) % ne) + 1],
         placeholder |-> t.Placeholders[(((i - 1) \div ne) % np) + 1],
         testType |-> t.Type, isTruePositive |-> t.IsTruePositive,
         testHeaderValue |->
            TestHeaderValue(t, t.Placeholders[(((i - 1) \div ne) % np) + 1],
                            t.Encoders[((i - 1) % ne) + 1])]]

\* produceTests, lines 325-345: the testWork items of one test case in the
\* order of the loops over payloads, encoders and placeholders.
WorkOfCase(t) ==
  LET ne == Len(t.Encoders)
      np == Len(t.Placeholders)
  IN [i \in 1..(Len(t.Payloads) * ne * np) |->
        [setName |-> t.Set, caseName |-> t.Name,
         payload |-> t.Payloads[((i - 1) \div (ne * np)) + 1],
         encoder |-> t.Encoders[(((i - 1) \div np) % ne) + 1],
         placeholder |-> t.Placeholders[((i - 1) % np) + 1],
         testType |-> t.Type, isTruePositive |-> t.IsTruePositive,
         testHeaderValue |->
            TestHeaderValue(t, t.Placeholders[((i - 1) % np) + 1],
                            t.Encoders[(((i - 1) \div np) % ne) + 1])]]

RECURSIVE WorkOfCases(_)
\* The testWork items of a catalog in the order produceTests emits them.
WorkOfCases(cases) ==
  IF cases = <<>> THEN <<>>
  ELSE WorkOfCase(Head(cases)) \o WorkOfCases(Tail(cases))

\* The item produceTests emits at position n.
WorkAt(n) == [work |-> WorkOfCases(testCases)[n], id |-> n]

\* A worker's w before it has received one.
NoWork == [work |-> <<>>, id |-> 0]

\* db.GetNumberOfAllTestCases(): the Cartesian cardinality of the catalog.
RECURSIVE NumberOfAllTestCases(_)
NumberOfAllTestCases(cases) ==
  IF cases = <<>> THEN 0
  ELSE Len(Head(cases).Payloads) * Len(Head(cases).Encoders)
         * Len(Head(cases).Placeholders)
       + NumberOfAllTestCases(Tail(cases))

\* s.requestTemplates[placeholder]: a missing key reads as the empty list.
TemplatesOf(placeholder) ==
  IF placeholder \in DOMAIN requestTemplates.map
  THEN requestTemplates.map[placeholder] ELSE <<>>

\* fmt.Sprintf("%s %s", template.Method, template.Path)
AdditionalInfoOf(template) == template.Method \o " " \o template.Path

\* What the router and the validator can answer for one request: the
\* route is found at once, found on the retry or not found, and the
\* response is valid or not.
OpenAPIResults ==
  {[route1 |-> TRUE, route2 |-> TRUE, validationOK |-> TRUE],
   [route1 |-> TRUE, route2 |-> TRUE, validationOK |-> FALSE],
   [route1 |-> FALSE, route2 |-> TRUE, validationOK |-> TRUE],
   [route1 |-> FALSE, route2 |-> TRUE, validationOK |-> FALSE],
   [route1 |-> FALSE, route2 |-> FALSE, validationOK |-> FALSE]}

\* The request of variant id, sent with the variant's test header value,
\* answered r by the target and o by the router and the validator.
Request(id, r, o, additionalInfo, isGRPC) ==
  [id |-> id,
   testHeaderValue |->
      IF id = 0 THEN "" ELSE WorkOfCases(testCases)[id].testHeaderValue,
   err |-> r.err, status |-> r.status, body |-> r.body,
   route1 |-> o.route1, route2 |-> o.route2, validationOK |-> o.validationOK,
   additionalInfo |-> additionalInfo, isGRPC |-> isGRPC]

\* No router and no validator is asked.
NoOpenAPI == [route1 |-> FALSE, route2 |-> FALSE, validationOK |-> FALSE]

NoRequest ==
  Request(0, [err |-> "nil", status |-> 0, body |-> ""], NoOpenAPI, "", FALSE)

\* A worker at its select: no testWork, and the locals of scanURL (the
\* template it is at, its four Info pointers, the error it is to return)
\* and of updateDB (the append it is to make) unset.
IdleWorker ==
  [pc |-> "select", w |-> NoWork, tmpl |-> 0, ptrs |-> NilPtrs, err |-> "nil",
   app |-> NoAppend]

NoHist == [takes |-> 0, reqs |-> 0, ret |-> "-"]

\* The WebSocket pre-check has not been called.
NoWsCheck ==
  [pc |-> "-", at |-> "-", i |-> 0, reader |-> "-", readErr |-> "-", receivedCtr |-> 0,
   deadline |-> 0, available |-> FALSE, blocked |-> FALSE, err |-> "-"]

\* The pre-check has not been called.
NoWAFCheck == [pc |-> "-", probes |-> <<>>, err |-> "-"]

\* The state of a fresh Scanner and store when Run starts; env is the
\* isTestEnv handed to scanner.New.
InitOf(env, c, templates, grpc, tgt, cases) ==
  /\ cfg = c
  /\ isTestEnv = env
  /\ requestTemplates = templates
  /\ grpcAvailable = grpc
  /\ target = tgt
  /\ testCases = cases
  /\ db = NewDB(cases, grpc)
  /\ testChan = <<>>
  /\ chanClosed = FALSE
  /\ producer = [pc |-> "loop", next |-> 1]
  /\ ctxDone = FALSE
  /\ workers = [i \in 1..c.Workers |-> IdleWorker]
  /\ bar = 0
  /\ crashed = FALSE
  /\ runErr = "running"
  /\ stats = <<>>
  /\ hist = [v \in 1..NumberOfAllTestCases(cases) |-> NoHist]
  /\ last = NoRequest
  /\ wafCheck = NoWAFCheck
  /\ ws = NoWsCheck

\* A Scanner outside the test environment.
InitWith(c, templates, grpc, tgt, cases) ==
  InitOf(FALSE, c, templates, grpc, tgt, cases)

config == <<cfg, isTestEnv, requestTemplates, grpcAvailable, target, testCases>>

\* produceTests, line 347: the next testWork goes into the channel.
ProduceSend ==
  /\ ~crashed /\ producer.pc = "loop"
  /\ producer.next <= NumberOfAllTestCases(testCases)
  /\ Len(testChan) < cfg.Workers
  /\ testChan' = Append(testChan, WorkAt(producer.next))
  /\ producer' = [producer EXCEPT !.next = @ + 1]
  /\ UNCHANGED <<config, wafCheck, ws, db, chanClosed, ctxDone, workers, bar, crashed,
                  runErr, stats, hist, last>>

\* produceTests, lines 348-349 and 321: the context is done, the producer
\* returns and the deferred close runs.
ProduceCancelled ==
  /\ ~crashed /\ producer.pc = "loop"
  /\ producer.next <= NumberOfAllTestCases(testCases)
  /\ ctxDone
  /\ chanClosed' = TRUE
  /\ producer' = [producer EXCEPT !.pc = "done"]
  /\ UNCHANGED <<config, wafCheck, ws, db, testChan, ctxDone, workers, bar, crashed,
                  runErr, stats, hist, last>>

\* produceTests, line 321: the loops are over, the deferred close runs.
ProduceClose ==
  /\ ~crashed /\ producer.pc = "loop"
  /\ producer.next > NumberOfAllTestCases(testCases)
  /\ chanClosed' = TRUE
  /\ producer' = [producer EXCEPT !.pc = "done"]
  /\ UNCHANGED <<config, wafCheck, ws, db, testChan, ctxDone, workers, bar, crashed,
                  runErr, stats, hist, last>>

\* The context handed to Run is cancelled by the caller.
Cancel ==
  /\ ~crashed /\ ~ctxDone /\ runErr = "running"
  /\ ctxDone' = TRUE
  /\ UNCHANGED <<config, wafCheck, ws, db, testChan, chanClosed, producer, workers, bar,
                  crashed, runErr, stats, hist, last>>

\* Run, lines 261-262: a worker receives a testWork from the channel.
WorkerReceive(i) ==
  /\ ~crashed /\ workers[i].pc = "select"
  /\ testChan # <<>>
  /\ testChan' = Tail(testChan)
  /\ hist' = [hist EXCEPT ![Head(testChan).id].takes = @ + 1]
  /\ workers' = [workers EXCEPT ![i].pc = "scan", ![i].w = Head(testChan)]
  /\ UNCHANGED <<config, wafCheck, ws, db, chanClosed, producer, ctxDone, bar, crashed,
                  runErr, stats, last>>

\* Run, lines 263-265: the channel is closed and empty, the worker returns.
WorkerClosed(i) ==
  /\ ~crashed /\ workers[i].pc = "select"
  /\ testChan = <<>> /\ chanClosed
  /\ workers' = [workers EXCEPT ![i].pc = "exited"]
  /\ UNCHANGED <<config, wafCheck, ws, db, testChan, chanClosed, producer, ctxDone, bar,
                  crashed, runErr, stats, hist, last>>

\* Run, lines 272-273: the context is done, the worker returns.
WorkerCancelled(i) ==
  /\ ~crashed /\ workers[i].pc = "select"
  /\ ctxDone
  /\ workers' = [workers EXCEPT ![i].pc = "exited"]
  /\ UNCHANGED <<config, wafCheck, ws, db, testChan, chanClosed, producer, ctxDone, bar,
                  crashed, runErr, stats, hist, last>>

\* Returns that advances the bar only when scanURL returned no error (C17).
Returns_Silent(i) ==
  /\ ~crashed /\ workers[i].pc = "returned"
  /\ workers' = [workers EXCEPT ![i] = IdleWorker]
  /\ bar' = IF workers[i].err = "nil" THEN bar + 1 ELSE bar
  /\ UNCHANGED <<config, wafCheck, ws, db, testChan, chanClosed, producer, ctxDone,
                  crashed, runErr, stats, hist, last>>

\* Run, lines 268-271: scanURL has returned to the worker's loop; the error
\* is logged and the bar advances.
Returns(i) ==
  /\ ~crashed /\ workers[i].pc = "returned"
  /\ workers' = [workers EXCEPT ![i] = IdleWorker]
  /\ bar' = bar + 1
  /\ UNCHANGED <<config, wafCheck, ws, db, testChan, chanClosed, producer, ctxDone,
                  crashed, runErr, stats, hist, last>>

\* scanURL returns err and leaves the store as d; sent tells whether a
\* send was called just before, for the request rq.
Leaves(i, d, err, sent, rq) ==
  /\ db' = d
  /\ workers' = [workers EXCEPT ![i].pc = "returned", ![i].err = err,
                                ![i].tmpl = 0, ![i].ptrs = NilPtrs]
  /\ hist' = [hist EXCEPT ![workers[i].w.id].ret = err,
                          ![workers[i].w.id].reqs =
                             IF sent THEN @ + 1 ELSE @]
  /\ last' = IF sent THEN rq ELSE last
  /\ UNCHANGED <<bar, crashed>>

\* The goroutine of worker i panics and nothing recovers: its deferred
\* wg.Done() runs (Run, line 259) and the goroutine is gone, with the
\* testWork it held; the process has not exited yet.
Panics(i) ==
  /\ workers' = [workers EXCEPT ![i].pc = "panicked"]
  /\ UNCHANGED <<db, bar, crashed, hist, last>>

\* Run, line 266: the worker holds a testWork and is about to sleep;
\* rand.Intn panics when its argument is not positive.
SleepPanics(i) ==
  /\ ~crashed /\ workers[i].pc = "scan"
  /\ cfg.RandomDelay <= 0
  /\ Panics(i)
  /\ UNCHANGED <<config, wafCheck, ws, testChan, chanClosed, producer, ctxDone, runErr, stats>>

\* The Go runtime ends the process after the panic of a goroutine, once
\* the deferred calls of that goroutine have run. The other goroutines and
\* Run keep running until then: the exit may come after any of their steps.
ProcessExits ==
  /\ ~crashed
  /\ \E i \in DOMAIN workers : workers[i].pc = "panicked"
  /\ crashed' = TRUE
  /\ UNCHANGED <<config, wafCheck, ws, db, testChan, chanClosed, producer, ctxDone, workers,
                  bar, runErr, stats, hist, last>>

\* The error of a send whose encoder failed on the payload.
EncoderError == "encoder error"

\* httpClient.SendPayload and grpcConn.Send encode the payload themselves:
\* what a send can return is an answer of the target or, when the encoder
\* fails, the encoder's error as the error of the send.
SendResults(encoded) ==
  IF encoded THEN target.responses
  ELSE {[err |-> EncoderError, status |-> 0, body |-> ""]}

\* ScanURL that records a variant whose payload cannot be encoded as
\* Failed (C29).
ScanURL_EncodingRecorded(i) ==
  /\ ~crashed /\ workers[i].pc = "scan"
  /\ cfg.RandomDelay > 0
  /\ LET w == workers[i].w.work
         id == workers[i].w.id
     IN IF w.encoder = DefaultGRPCEncoder
        THEN IF ~grpcAvailable
             THEN Leaves(i, db, "nil", FALSE, last)
             ELSE \E encoded \in target.encoded : \E r \in SendResults(encoded) :
                    LET res == updateDB(cfg, ~requestTemplates.nil, db, w, NilPtrs,
                                        r.status, r.body, r.err, "", TRUE,
                                        FALSE, FALSE, FALSE)
                    IN Leaves(i, res.db, res.err, TRUE,
                              Request(id, r, NoOpenAPI, "", TRUE))
        ELSE IF requestTemplates.nil
        THEN \E encoded \in target.encoded : \E r \in SendResults(encoded) :
               LET res == updateDB(cfg, FALSE, db, w, NilPtrs,
                                   r.status, r.body, r.err, "", FALSE,
                                   FALSE, FALSE, FALSE)
               IN Leaves(i, res.db, res.err, TRUE,
                         Request(id, r, NoOpenAPI, "", FALSE))
        ELSE \E encoded \in target.encoded :
               IF ~encoded
               THEN Leaves(i, UpdateFailedTests(db, toInfo(w, 0)),
                           "encoding payload", FALSE, last)
               ELSE IF TemplatesOf(w.placeholder) = <<>>
               THEN Leaves(i, db, "nil", FALSE, last)
               ELSE /\ workers' = [workers EXCEPT ![i].pc = "template", ![i].tmpl = 1]
                    /\ UNCHANGED <<db, bar, crashed, hist, last>>
  /\ UNCHANGED <<config, wafCheck, ws, testChan, chanClosed, producer, ctxDone, runErr, stats>>

\* Run, line 266, and scanURL, lines 369-401: the sleep is over; the gRPC
\* send or the direct HTTP send, each with its updateDB and the return, or
\* the encoding of the payload before the loop over the templates. A send
\* whose encoder fails returns the error and updateDB records it as Failed;
\* before the templates the encoder's error is returned and nothing is
\* recorded.
ScanURL(i) ==
  /\ ~crashed /\ workers[i].pc = "scan"
  /\ cfg.RandomDelay > 0
  /\ LET w == workers[i].w.work
         id == workers[i].w.id
     IN IF w.encoder = DefaultGRPCEncoder
        THEN IF ~grpcAvailable
             THEN Leaves(i, db, "nil", FALSE, last)
             ELSE \E encoded \in target.encoded : \E r \in SendResults(encoded) :
                    LET res == updateDB(cfg, ~requestTemplates.nil, db, w, NilPtrs,
                                        r.status, r.body, r.err, "", TRUE,
                                        FALSE, FALSE, FALSE)
                    IN Leaves(i, res.db, res.err, TRUE,
                              Request(id, r, NoOpenAPI, "", TRUE))
        ELSE IF requestTemplates.nil
        THEN \E encoded \in target.encoded : \E r \in SendResults(encoded) :
               LET res == updateDB(cfg, FALSE, db, w, NilPtrs,
                                   r.status, r.body, r.err, "", FALSE,
                                   FALSE, FALSE, FALSE)
               IN Leaves(i, res.db, res.err, TRUE,
                         Request(id, r, NoOpenAPI, "", FALSE))
        ELSE \E encoded \in target.encoded :
               IF ~encoded THEN Leaves(i, db, "encoding payload", FALSE, last)
               ELSE IF TemplatesOf(w.placeholder) = <<>>
               THEN Leaves(i, db, "nil", FALSE, last)
               ELSE /\ workers' = [workers EXCEPT ![i].pc = "template", ![i].tmpl = 1]
                    /\ UNCHANGED <<db, bar, crashed, hist, last>>
  /\ UNCHANGED <<config, wafCheck, ws, testChan, chanClosed, producer, ctxDone, runErr, stats>>

\* scanURL, lines 409-421: one round of the loop over the templates, up to
\* the release of the store's lock in updateDB: the request is created and
\* sent and its answer classified; when the variant has no Info in the
\* bucket of the answer, the record operation stores one and the append to
\* its AdditionalInfo is left to the next step of the worker; when it has
\* one, the append is all that updateDB does to the store.
ScanTemplate(i) ==
  /\ ~crashed /\ workers[i].pc = "template"
  /\ LET w == workers[i].w.work
         id == workers[i].w.id
         template == TemplatesOf(w.placeholder)[workers[i].tmpl]
     IN \E created \in target.created :
          IF ~created THEN Leaves(i, db, "create request from template", FALSE, last)
          ELSE \E r \in target.responses, o \in target.openapi :
                 LET res == updateDB(cfg, TRUE, db, w, workers[i].ptrs,
                                     r.status, r.body, r.err,
                                     AdditionalInfoOf(template), FALSE,
                                     o.route1, o.route2, o.validationOK)
                     rq == Request(id, r, o, AdditionalInfoOf(template), FALSE)
                 IN /\ hist' = [hist EXCEPT ![id].reqs = @ + 1]
                    /\ last' = rq
                    /\ IF res.append = NoAppend
                       THEN /\ db' = res.db
                            /\ workers' = [workers EXCEPT ![i].pc = "path",
                                                          ![i].ptrs = res.ptrs,
                                                          ![i].err = res.err]
                       ELSE IF res.ptrs # workers[i].ptrs
                       THEN /\ db' = res.db
                            /\ workers' = [workers EXCEPT ![i].pc = "append",
                                                          ![i].ptrs = res.ptrs,
                                                          ![i].err = res.err,
                                                          ![i].app = res.append]
                       ELSE /\ db' = Appended(res.db, res.append)
                            /\ workers' = [workers EXCEPT ![i].pc = "path",
                                                          ![i].ptrs = res.ptrs,
                                                          ![i].err = res.err]
                    /\ UNCHANGED <<bar, crashed>>
  /\ UNCHANGED <<config, wafCheck, ws, testChan, chanClosed, producer, ctxDone, runErr, stats>>

\* updateDB, lines 472-474, 483-485, 550-552 and 558-560: after the record
\* operation has released the lock of the store, the append to the
\* AdditionalInfo of the Info; the unresolved branch appends through the
\* parameter unresolvedTest and panics when it is nil.
UpdateDBAppend(i) ==
  /\ ~crashed /\ workers[i].pc = "append"
  /\ IF workers[i].app.test = 0 THEN Panics(i)
     ELSE /\ db' = Appended(db, workers[i].app)
          /\ workers' = [workers EXCEPT ![i].pc = "path", ![i].app = NoAppend]
          /\ UNCHANGED <<bar, crashed, hist, last>>
  /\ UNCHANGED <<config, wafCheck, ws, testChan, chanClosed, producer, ctxDone, runErr, stats>>

\* scanURL, lines 423-431: the template's method and path go to the scanned
\* paths; scanURL returns the error of updateDB, or nil after the last
\* template, and goes on with the next template otherwise.
ScanPath(i) ==
  /\ ~crashed /\ workers[i].pc = "path"
  /\ LET w == workers[i].w.work
         template == TemplatesOf(w.placeholder)[workers[i].tmpl]
         d == AddToScannedPaths(db, template.Method, template.Path)
     IN IF workers[i].err # "nil" THEN Leaves(i, d, workers[i].err, FALSE, last)
        ELSE IF workers[i].tmpl = Len(TemplatesOf(w.placeholder))
        THEN Leaves(i, d, "nil", FALSE, last)
        ELSE /\ db' = d
             /\ workers' = [workers EXCEPT ![i].pc = "template", ![i].tmpl = @ + 1]
             /\ UNCHANGED <<bar, crashed, hist, last>>
  /\ UNCHANGED <<config, wafCheck, ws, testChan, chanClosed, producer, ctxDone, runErr, stats>>

\* Run, lines 279-284: wg.Wait() returns once every worker has called
\* wg.Done(), on its return or on its panic.
RunReturns ==
  /\ ~crashed /\ runErr = "running"
  /\ \A i \in DOMAIN workers : workers[i].pc \in {"exited", "panicked"}
  /\ runErr' = IF ctxDone THEN "context canceled" ELSE "nil"
  /\ UNCHANGED <<config, wafCheck, ws, db, testChan, chanClosed, producer, ctxDone, workers,
                  bar, crashed, stats, hist, last>>

\* After Run the caller aggregates: db.GetStatistics with the two counting
\* policies of the configuration.
Aggregate ==
  /\ ~crashed /\ runErr # "running" /\ stats = <<>>
  /\ \E g \in {GetStatistics(db, cfg.IgnoreUnresolved, cfg.NonBlockedAsPassed)} :
       /\ stats' = <<g.stats>>
       /\ db' = g.db
  /\ UNCHANGED <<config, wafCheck, ws, testChan, chanClosed, producer, ctxDone, workers, bar,
                  crashed, runErr, hist, last>>

Next ==
  \/ ProduceSend
  \/ ProduceCancelled
  \/ ProduceClose
  \/ Cancel
  \/ \E i \in DOMAIN workers : WorkerReceive(i)
  \/ \E i \in DOMAIN workers : WorkerClosed(i)
  \/ \E i \in DOMAIN workers : WorkerCancelled(i)
  \/ \E i \in DOMAIN workers : ScanURL(i)
  \/ \E i \in DOMAIN workers : ScanTemplate(i)
  \/ \E i \in DOMAIN workers : UpdateDBAppend(i)
  \/ \E i \in DOMAIN workers : ScanPath(i)
  \/ \E i \in DOMAIN workers : Returns(i)
  \/ \E i \in DOMAIN workers : SleepPanics(i)
  \/ RunReturns
  \/ Aggregate
  \/ ProcessExits

\* What the Go scheduler and runtime run: the producer goroutine, the
\* worker goroutines, Run itself and the exit after a panic. The caller's
\* cancellation and the later aggregation are not among them.
Scheduled ==
  \/ ProduceSend
  \/ ProduceCancelled
  \/ ProduceClose
  \/ \E i \in DOMAIN workers : WorkerReceive(i)
  \/ \E i \in DOMAIN workers : WorkerClosed(i)
  \/ \E i \in DOMAIN workers : WorkerCancelled(i)
  \/ \E i \in DOMAIN workers : ScanURL(i)
  \/ \E i \in DOMAIN workers : ScanTemplate(i)
  \/ \E i \in DOMAIN workers : UpdateDBAppend(i)
  \/ \E i \in DOMAIN workers : ScanPath(i)
  \/ \E i \in DOMAIN workers : Returns(i)
  \/ \E i \in DOMAIN workers : SleepPanics(i)
  \/ RunReturns
  \/ ProcessExits

\* ------------------------------------------------- initial conditions
PayloadPool == <<"p1", "p2", "p3">>
TemplatePool ==
  <<[Method |-> "GET", Path |-> "/b"], [Method |-> "POST", Path |-> "/a"],
    [Method |-> "PUT", Path |-> "/a"]>>

\* No OpenAPI file: s.requestTemplates is nil.
NoTemplates == [nil |-> TRUE, map |-> [ph \in {} |-> <<>>]]

\* The templates of an OpenAPI file: MaxTemplates of them for URLParam, two
\* for Form, one for Header, none for any other placeholder.
Templates ==
  [nil |-> FALSE,
   map |-> [ph \in {"URLParam", "Form", "Header"} |->
              IF ph = "URLParam" THEN SubSeq(TemplatePool, 1, MaxTemplates)
              ELSE IF ph = "Form" THEN SubSeq(TemplatePool, 1, 2)
              ELSE <<[Method |-> "GET", Path |-> "/a"]>>]]

DefaultConfig ==
  [Workers |-> 2, SendDelay |-> 0, RandomDelay |-> 2,
   BlockConnReset |-> FALSE, BlockStatusCode |-> 403,
   PassStatusCode |-> <<200, 404>>, BlockRegex |-> "", PassRegex |-> "",
   IgnoreUnresolved |-> FALSE, NonBlockedAsPassed |-> FALSE,
   SkipWAFBlockCheck |-> FALSE]

\* The catalog of the concurrent run: a negative case with an HTTP and a
\* gRPC variant, and a positive case whose placeholder has no template in
\* the OpenAPI file.
RunCatalog ==
  <<[Set |-> "owasp", Name |-> "xss", Type |-> "attack",
     Payloads |-> <<"p1">>,
     Encoders |-> <<"URL", "gRPC">>, Placeholders |-> <<"Form">>,
     IsTruePositive |-> TRUE],
    [Set |-> "false-pos", Name |-> "texts", Type |-> "benign",
     Payloads |-> <<"p1">>,
     Encoders |-> <<"URL">>, Placeholders |-> <<"JSONBody">>,
     IsTruePositive |-> FALSE]>>

\* A target that answers 200 or 403, resets the connection or times out;
\* every payload encodes and every request is created, every route is
\* found at once.
RunTarget ==
  [responses |->
     {[err |-> "nil", status |-> 200, body |-> ""],
      [err |-> "nil", status |-> 403, body |-> ""],
      [err |-> "ECONNRESET", status |-> 0, body |-> ""],
      [err |-> "timeout", status |-> 0, body |-> ""]},
   openapi |-> {o \in OpenAPIResults : o.route1},
   encoded |-> {TRUE},
   created |-> {TRUE}]

RunConfigs ==
  {DefaultConfig,
   [DefaultConfig EXCEPT !.BlockConnReset = TRUE],
   [DefaultConfig EXCEPT !.NonBlockedAsPassed = TRUE],
   [DefaultConfig EXCEPT !.RandomDelay = 0]}

\* Run with two workers, with and without OpenAPI templates, gRPC
\* available or not.
Init ==
  \E c \in RunConfigs, templates \in {NoTemplates, Templates}, grpc \in BOOLEAN :
    InitWith(c, templates, grpc, RunTarget, RunCatalog)

Spec == Init /\ [][Next]_vars

\* Run under a scheduler that does not leave a runnable goroutine waiting
\* forever: a step of a goroutine that stays possible is taken.
SpecFair == Init /\ [][Next]_vars /\ WF_vars(Scheduled)

\* The catalog of the sequential scan: a negative case sent over HTTP and
\* a positive case sent over gRPC.
ScanCatalog ==
  <<[Set |-> "owasp", Name |-> "xss", Type |-> "attack",
     Payloads |-> <<"p1">>,
     Encoders |-> <<"URL">>, Placeholders |-> <<"URLParam">>,
     IsTruePositive |-> TRUE],
    [Set |-> "false-pos", Name |-> "texts", Type |-> "benign",
     Payloads |-> SubSeq(PayloadPool, 1, MaxPayloads),
     Encoders |-> <<"gRPC">>, Placeholders |-> <<"Header">>,
     IsTruePositive |-> FALSE]>>

\* The transport errors of a send.
SendErrors ==
  {[err |-> e, status |-> 0, body |-> ""] : e \in {"EOF", "ECONNRESET", "timeout"}}

\* A target for the classifier: every status with every body, and the
\* transport errors.
ClassifierTarget ==
  [responses |->
     {[err |-> "nil", status |-> st, body |-> b] :
        st \in {200, 403, 500}, b \in {"", "deny", "ok", "deny ok"}}
     \cup SendErrors,
   openapi |-> OpenAPIResults,
   encoded |-> BOOLEAN,
   created |-> BOOLEAN]

\* A target behind OpenAPI templates: every status, a body that the block
\* expression matches, the transport errors; every answer of the router,
\* the validator, the encoder and the request builder.
TemplateTarget ==
  [responses |->
     {[err |-> "nil", status |-> st, body |-> ""] : st \in {200, 403, 500}}
     \cup {[err |-> "nil", status |-> 200, body |-> "deny"]}
     \cup SendErrors,
   openapi |-> OpenAPIResults,
   encoded |-> BOOLEAN,
   created |-> BOOLEAN]

\* One worker; the counting policies and BlockConnReset.
PolicyConfigs ==
  {[DefaultConfig EXCEPT !.Workers = 1, !.BlockConnReset = r,
                         !.IgnoreUnresolved = i, !.NonBlockedAsPassed = n] :
     r \in BOOLEAN, i \in BOOLEAN, n \in BOOLEAN}

\* One worker; the signals of the classifier.
ClassifierConfigs ==
  {[DefaultConfig EXCEPT !.Workers = 1, !.BlockRegex = br, !.PassRegex = pr,
                         !.PassStatusCode = pc] :
     br \in {"", "deny"}, pr \in {"", "ok"},
     pc \in {<<200, 404>>, <<200, 403>>}}

\* One worker whose sleep has no jitter: RandomDelay = 0.
NoJitterConfigs == {[DefaultConfig EXCEPT !.Workers = 1, !.RandomDelay = 0]}

\* One worker behind templates.
TemplateConfigs ==
  {[DefaultConfig EXCEPT !.Workers = 1, !.BlockConnReset = r, !.BlockRegex = br] :
     r \in BOOLEAN, br \in {"", "deny"}}
  \cup NoJitterConfigs

\* The scan of one worker: without templates for every configuration of
\* the classifier and of the policies, with templates for every answer of
\* the router and the validator.
InitScan ==
  \/ \E c \in PolicyConfigs \cup ClassifierConfigs \cup NoJitterConfigs, grpc \in BOOLEAN :
       InitWith(c, NoTemplates, grpc, ClassifierTarget, ScanCatalog)
  \/ \E c \in TemplateConfigs, grpc \in BOOLEAN :
       InitWith(c, Templates, grpc, TemplateTarget, ScanCatalog)

\* The steps of a run whose context is never cancelled.
NextScan ==
  \/ ProduceSend
  \/ ProduceClose
  \/ \E i \in DOMAIN workers : WorkerReceive(i)
  \/ \E i \in DOMAIN workers : WorkerClosed(i)
  \/ \E i \in DOMAIN workers : ScanURL(i)
  \/ \E i \in DOMAIN workers : ScanTemplate(i)
  \/ \E i \in DOMAIN workers : UpdateDBAppend(i)
  \/ \E i \in DOMAIN workers : ScanPath(i)
  \/ \E i \in DOMAIN workers : Returns(i)
  \/ \E i \in DOMAIN workers : SleepPanics(i)
  \/ RunReturns
  \/ Aggregate
  \/ ProcessExits

SpecScan == InitScan /\ [][NextScan]_vars

\* The sequential scan under a scheduler that does not leave a runnable
\* goroutine waiting forever.
SpecScanFair == InitScan /\ [][NextScan]_vars /\ WF_vars(Scheduled)

\* ------------------------------------------- the store on its own
\* The catalog behind the store: two negative cases and a positive one.
StatsCatalog ==
  <<[Set |-> "owasp", Name |-> "xss", Type |-> "attack",
     Payloads |-> <<"p1">>, Encoders |-> <<"URL">>,
     Placeholders |-> <<"URLParam">>, IsTruePositive |-> TRUE],
    [Set |-> "owasp", Name |-> "sqli", Type |-> "attack",
     Payloads |-> <<"p1">>, Encoders |-> <<"URL">>,
     Placeholders |-> <<"URLParam">>, IsTruePositive |-> TRUE],
    [Set |-> "false-pos", Name |-> "texts", Type |-> "benign",
     Payloads |-> <<"p1">>, Encoders |-> <<"URL">>,
     Placeholders |-> <<"Header">>, IsTruePositive |-> FALSE]>>

\* No scanner around the store: no worker, nothing to send to.
NoTarget == [responses |-> {}, openapi |-> {}, encoded |-> {}, created |-> {}]

\* The two counting policies, the same for every record operation and for
\* GetStatistics, as the one configuration of a process.
StatsConfigs ==
  {[DefaultConfig EXCEPT !.Workers = 0, !.IgnoreUnresolved = i,
                         !.NonBlockedAsPassed = n] :
     i \in BOOLEAN, n \in BOOLEAN}

\* A fresh store over the catalog; Run is not in play.
InitStats ==
  \E c \in StatsConfigs :
    /\ cfg = c
    /\ isTestEnv = FALSE
    /\ requestTemplates = NoTemplates
    /\ grpcAvailable = FALSE
    /\ target = NoTarget
    /\ testCases = StatsCatalog
    /\ db = NewDB(StatsCatalog, FALSE)
    /\ testChan = <<>>
    /\ chanClosed = TRUE
    /\ producer = [pc |-> "done", next |-> 1]
    /\ ctxDone = FALSE
    /\ workers = <<>>
    /\ bar = 0
    /\ crashed = FALSE
    /\ runErr = "nil"
    /\ stats = <<>>
    /\ hist = <<>>
    /\ last = NoRequest
    /\ wafCheck = NoWAFCheck
    /\ ws = NoWsCheck

\* The number of Infos in the four buckets.
NumberOfRecords(d) ==
  Len(d.blockedTests) + Len(d.passedTests) + Len(d.naTests) + Len(d.failedTests)

\* One of the four record operations of the store.
RecordOperation(d, op, t, isTruePositive) ==
  IF op = "passed" THEN UpdatePassedTests(d, t)
  ELSE IF op = "blocked" THEN UpdateBlockedTests(d, t)
  ELSE IF op = "failed" THEN UpdateFailedTests(d, t)
  ELSE UpdateNaTests(d, t, cfg.IgnoreUnresolved, cfg.NonBlockedAsPassed,
                     isTruePositive)

\* A caller records one outcome for a variant of some test case.
Record ==
  /\ stats = <<>>
  /\ NumberOfRecords(db) < MaxRecords
  /\ \E n \in DOMAIN testCases,
        op \in {"passed", "blocked", "failed", "unresolved"},
        isTruePositive \in BOOLEAN :
       /\ op # "unresolved" => isTruePositive = testCases[n].IsTruePositive
       /\ db' = RecordOperation(db, op, toInfo(WorkOfCase(testCases[n])[1], 0),
                                isTruePositive)
  /\ UNCHANGED <<config, wafCheck, ws, testChan, chanClosed, producer, ctxDone, workers, bar,
                  crashed, runErr, stats, hist, last>>

NextStats ==
  \/ Record
  \/ Aggregate

SpecStats == InitStats /\ [][NextStats]_vars

\* ------------------------------------------------ reading the state
\* The testWork of the variant emitted at position id.
WorkOf(id) == WorkOfCases(testCases)[id]

\* The absolute value of the integer n.
Abs(n) == IF n < 0 THEN -n ELSE n

\* The integer x is nearest to num / den: no integer is nearer (when the
\* quotient lies half way between two integers, both are nearest).
NearestTo(x, num, den) == 2 * Abs(x * den - num) <= Abs(den)

\* The Infos t and u carry the same set, case, payload, encoder and
\* placeholder.
SameVariant(t, u) ==
  /\ t.Set = u.Set /\ t.Case = u.Case /\ t.Payload = u.Payload
  /\ t.Encoder = u.Encoder /\ t.Placeholder = u.Placeholder

\* The positions in a bucket of the Infos of variant id.
InfosOf(bucket, id) ==
  {i \in DOMAIN bucket : SameVariant(bucket[i], toInfo(WorkOf(id), 0))}

\* scanURL has returned err for variant id, or updateDB has handed err to
\* it and it returns err after adding the scanned path.
ReturnsWith(id, err) ==
  \/ hist[id].ret = err
  \/ \E i \in DOMAIN workers :
       workers[i].pc = "path" /\ workers[i].w.id = id /\ workers[i].err = err

\* A worker is inside updateDB for variant id, between the record
\* operation and the append to the AdditionalInfo of the Info recorded.
Appending(id) ==
  \E i \in DOMAIN workers : workers[i].pc = "append" /\ workers[i].w.id = id

\* The workers whose goroutine has panicked.
PanickedWorkers == {i \in DOMAIN workers : workers[i].pc = "panicked"}

\* The append of updateDB for variant id is not made: a worker is about
\* to make it, or has panicked on it.
Unappended(id) ==
  \/ Appending(id)
  \/ \E i \in PanickedWorkers : workers[i].w.id = id /\ workers[i].app # NoAppend

\* The workers between the return of scanURL and bar.Add(1).
Returning == {i \in DOMAIN workers : workers[i].pc = "returned"}

\* The workers that hold a variant they received: asleep or inside
\* scanURL, or between its return and bar.Add(1).
Holding ==
  {i \in DOMAIN workers :
     workers[i].pc \in {"scan", "template", "append", "path", "returned"}}

\* A goroutine has panicked: the process is about to exit or has exited.
Panicked == PanickedWorkers # {}

\* The variants received from the channel so far.
Consumed == {id \in DOMAIN hist : hist[id].takes > 0}

\* The encoder failed on the payload of variant id: before the templates
\* scanURL returned the wrapped error; inside a send, the latest one, the
\* send returned the encoder's error.
EncodingFailed(id) ==
  \/ hist[id].ret = "encoding payload"
  \/ last.id = id /\ last.err = EncoderError

\* The four buckets of the store.
BucketNames == {"blockedTests", "passedTests", "naTests", "failedTests"}

\* The number of Infos of variant id in the four buckets together.
RecordsOf(id) ==
  Cardinality(InfosOf(db.blockedTests, id)) + Cardinality(InfosOf(db.passedTests, id))
  + Cardinality(InfosOf(db.naTests, id)) + Cardinality(InfosOf(db.failedTests, id))

RECURSIVE NotesIn(_, _)
\* The number of additionalInfo entries of the Infos of variant id in a bucket.
NotesIn(bucket, id) ==
  IF bucket = <<>> THEN 0
  ELSE (IF SameVariant(Head(bucket), toInfo(WorkOf(id), 0))
        THEN Len(Head(bucket).AdditionalInfo) ELSE 0)
       + NotesIn(Tail(bucket), id)

\* The number of additionalInfo entries of variant id in the four buckets.
NotesOf(id) ==
  NotesIn(db.blockedTests, id) + NotesIn(db.passedTests, id)
  + NotesIn(db.naTests, id) + NotesIn(db.failedTests, id)

\* The bucket holds an Info of variant id whose additionalInfo has entry s.
Noted(bucket, id, s) ==
  \E i \in InfosOf(bucket, id) :
    \E k \in DOMAIN bucket[i].AdditionalInfo : bucket[i].AdditionalInfo[k] = s

\* Variant id is sent through the OpenAPI templates.
IsTemplateVariant(id) ==
  ~requestTemplates.nil /\ WorkOf(id).encoder # DefaultGRPCEncoder

\* The rows of both summary tables of the computed statistics.
AllRows == stats[1].SummaryTable \o stats[1].PositiveTests.SummaryTable

RECURSIVE SumOver(_, _)
\* The sum of f over the finite set S.
SumOver(f, S) ==
  IF S = {} THEN 0
  ELSE LET x == CHOOSE y \in S : TRUE IN f[x] + SumOver(f, S \ {x})

\* No two details of a list share (set, case, payload, encoder, placeholder).
NoDuplicates(list) ==
  \A i, j \in DOMAIN list :
    (/\ list[i].TestSet = list[j].TestSet /\ list[i].TestCase = list[j].TestCase
     /\ list[i].Payload = list[j].Payload /\ list[i].Encoder = list[j].Encoder
     /\ list[i].Placeholder = list[j].Placeholder) => i = j

\* ---------------------------------------------------------------- C1
\* C1 as stated: every variant a worker has consumed and scanURL has
\* returned for is in exactly one of the four buckets.
C1_ExactlyOneOutcome ==
  \A id \in DOMAIN hist : hist[id].ret # "-" => RecordsOf(id) = 1

\* C1, amended: a consumed variant sent directly over HTTP, or over gRPC
\* while gRPC is available, has exactly one Info in exactly one bucket; a
\* gRPC variant while gRPC is unavailable has none; a variant sent through
\* templates has at most one Info per bucket and no more Infos than
\* requests sent (none when encoding fails or the placeholder has no
\* template, several when its templates are classified differently).
C1_OutcomePerMode ==
  \A id \in DOMAIN hist :
    /\ \A n \in BucketNames : Cardinality(InfosOf(db[n], id)) <= 1
    /\ hist[id].ret # "-" =>
         IF WorkOf(id).encoder = DefaultGRPCEncoder
         THEN RecordsOf(id) = (IF grpcAvailable THEN 1 ELSE 0)
         ELSE IF requestTemplates.nil THEN RecordsOf(id) = 1
         ELSE RecordsOf(id) <= hist[id].reqs

\* A scan in which a template variant ended in two buckets and a gRPC
\* variant was skipped without a record.
C1_Witness ==
  \E id, g \in DOMAIN hist :
    /\ hist[id].ret # "-" /\ IsTemplateVariant(id) /\ RecordsOf(id) = 2
    /\ hist[g].ret # "-" /\ WorkOf(g).encoder = DefaultGRPCEncoder
    /\ RecordsOf(g) = 0

\* ---------------------------------------------------------------- C2
\* The sum over all rows of bypassed + blocked + failed + unresolved.
RowSum ==
  SumOver([i \in DOMAIN AllRows |->
             AllRows[i].Bypassed + AllRows[i].Blocked + AllRows[i].Failed
             + AllRows[i].Unresolved],
          DOMAIN AllRows)

C3_EachVariantOnce ==
  /\ \A id \in DOMAIN hist :
       /\ hist[id].takes <= 1
       /\ hist[id].ret # "-" => hist[id].takes = 1
       /\ \A n \in BucketNames : Cardinality(InfosOf(db[n], id)) <= 1
  /\ \A i, j \in DOMAIN workers :
       (/\ workers[i].pc \in {"scan", "template", "append", "path", "returned"}
        /\ workers[j].pc \in {"scan", "template", "append", "path", "returned"}
        /\ workers[i].w.id = workers[j].w.id) => i = j
  /\ runErr = "nil" =>
       /\ \A id \in DOMAIN hist : hist[id].takes = 1 /\ hist[id].ret # "-"
       /\ bar = NumberOfAllTestCases(testCases)
  /\ stats # <<>> =>
       /\ NoDuplicates(stats[1].Blocked) /\ NoDuplicates(stats[1].Bypasses)
       /\ NoDuplicates(stats[1].Unresolved) /\ NoDuplicates(stats[1].Failed)
       /\ NoDuplicates(stats[1].PositiveTests.FalsePositive)
       /\ NoDuplicates(stats[1].PositiveTests.TruePositive)
       /\ NoDuplicates(stats[1].PositiveTests.Unresolved)
       /\ NoDuplicates(stats[1].PositiveTests.Failed)

\* No variant is received twice, held by two workers or recorded twice in
\* a bucket; unless a worker has panicked, none is left when Run returns
\* nil and no detail list holds a variant twice.
C3_EachVariantOnceOrPanics ==
  /\ \A id \in DOMAIN hist :
       /\ hist[id].takes <= 1
       /\ hist[id].ret # "-" => hist[id].takes = 1
       /\ \A n \in BucketNames : Cardinality(InfosOf(db[n], id)) <= 1
  /\ \A i, j \in DOMAIN workers :
       (/\ i \in Holding \cup PanickedWorkers
        /\ j \in Holding \cup PanickedWorkers
        /\ workers[i].w.id = workers[j].w.id) => i = j
  /\ (runErr = "nil" /\ ~Panicked) =>
       /\ \A id \in DOMAIN hist : hist[id].takes = 1 /\ hist[id].ret # "-"
       /\ bar = NumberOfAllTestCases(testCases)
  /\ (stats # <<>> /\ ~Panicked) =>
       /\ NoDuplicates(stats[1].Blocked) /\ NoDuplicates(stats[1].Bypasses)
       /\ NoDuplicates(stats[1].Unresolved) /\ NoDuplicates(stats[1].Failed)
       /\ NoDuplicates(stats[1].PositiveTests.FalsePositive)
       /\ NoDuplicates(stats[1].PositiveTests.TruePositive)
       /\ NoDuplicates(stats[1].PositiveTests.Unresolved)
       /\ NoDuplicates(stats[1].PositiveTests.Failed)

\* Run has returned nil although a worker panicked with a variant in its
\* hands: the variant was never returned for and the bar stands below the
\* number of variants emitted.
C3_LostVariant ==
  /\ runErr = "nil" /\ Panicked /\ ~ctxDone
  /\ bar < NumberOfAllTestCases(testCases)
  /\ \E id \in DOMAIN hist : hist[id].ret = "-"

\* ---------------------------------------------------------------- C4
\* C4 as stated: a variant for which k >= 1 template requests were sent
\* has exactly one Info, in exactly one bucket.
C4_OneInfoOneBucket ==
  \A id \in DOMAIN hist :
    (IsTemplateVariant(id) /\ hist[id].ret # "-" /\ hist[id].reqs >= 1)
      => RecordsOf(id) = 1

\* C4, amended: a variant sent through templates has at most one Info in
\* each bucket; every recorded request adds one entry to the Info of its
\* outcome's bucket, so the entries of the variant's Infos count the
\* requests recorded (all requests sent, but the one whose route was not
\* found and the one whose entry updateDB has not appended yet or
\* panicked at).
C4_OneInfoPerBucket ==
  \A id \in DOMAIN hist :
    IsTemplateVariant(id) =>
      /\ \A n \in BucketNames : Cardinality(InfosOf(db[n], id)) <= 1
      /\ RecordsOf(id) <= hist[id].reqs
      /\ NotesOf(id) =
           hist[id].reqs
           - (IF ReturnsWith(id, "couldn't find request route") THEN 1 ELSE 0)
           - (IF Unappended(id) THEN 1 ELSE 0)

\* A variant of two templates, the first answered 200 and valid, the
\* second 403: one Info in the passed bucket and one in the blocked bucket.
C4_Witness ==
  \E id \in DOMAIN hist :
    /\ IsTemplateVariant(id) /\ hist[id].ret = "nil" /\ hist[id].reqs >= 2
    /\ Cardinality(InfosOf(db.passedTests, id)) = 1
    /\ Cardinality(InfosOf(db.blockedTests, id)) = 1

\* ---------------------------------------------------------------- C5
\* The latest request was answered without transport error and no
\* templates are in use.
C5_Answered == last.id # 0 /\ requestTemplates.nil /\ last.err = "nil"

\* blocked := BlockRegex matches the body if set, else status = BlockStatusCode
C5_Blocked ==
  IF cfg.BlockRegex # "" THEN Contains(last.body, cfg.BlockRegex)
  ELSE last.status = cfg.BlockStatusCode

\* passed := PassRegex matches the body if set, else status in PassStatusCode
C5_Passed ==
  IF cfg.PassRegex # "" THEN Contains(last.body, cfg.PassRegex)
  ELSE \E k \in DOMAIN cfg.PassStatusCode : last.status = cfg.PassStatusCode[k]

\* C5: without templates, a response without transport error is recorded
\* Blocked when blocked and not passed, Passed when passed and not blocked,
\* Unresolved when both predicates or neither hold; it is the variant's
\* only Info and carries the response's status code.
C5_Classifier ==
  C5_Answered =>
    LET bucket == IF C5_Blocked /\ ~C5_Passed THEN db.blockedTests
                  ELSE IF C5_Passed /\ ~C5_Blocked THEN db.passedTests
                  ELSE db.naTests
    IN /\ RecordsOf(last.id) = 1
       /\ \E i \in InfosOf(bucket, last.id) :
            bucket[i].ResponseStatusCode = last.status

\* Both expressions are set and both match the body: the variant is
\* unresolved.
C5_Witness ==
  /\ C5_Answered /\ cfg.BlockRegex # "" /\ cfg.PassRegex # ""
  /\ C5_Blocked /\ C5_Passed
  /\ InfosOf(db.naTests, last.id) # {}

\* ---------------------------------------------------------------- C6
\* C6 as stated: when the latest send ended with end-of-stream or
\* connection reset, the process goes on, and the variant is in the
\* blocked bucket if BlockConnReset is set and otherwise has one Info in
\* the unresolved bucket, with the additional info appended when there
\* is one (once updateDB has come to its append).
C6_ResetRecorded ==
  (last.id # 0 /\ IsReset(last.err) /\ ~Appending(last.id)) =>
    /\ ~Panicked
    /\ IF cfg.BlockConnReset
       THEN InfosOf(db.blockedTests, last.id) # {}
       ELSE /\ Cardinality(InfosOf(db.naTests, last.id)) = 1
            /\ last.additionalInfo # "" =>
                 Noted(db.naTests, last.id, last.additionalInfo)

\* ---------------------------------------------------------------- C7
\* C7 as stated: when the latest send ended with another transport error,
\* the variant has an Info in the failed bucket whose additionalInfo holds
\* the error message (once updateDB has come to its append).
C7_FailedWithMessage ==
  (last.id # 0 /\ last.err # "nil" /\ ~IsReset(last.err) /\ ~Appending(last.id)) =>
    Noted(db.failedTests, last.id, last.err)

\* ---------------------------------------------------------------- C8
\* The latest request went through a template and was answered or reset,
\* and updateDB has come to its append.
C8_Answered ==
  /\ last.id # 0 /\ ~requestTemplates.nil /\ ~last.isGRPC
  /\ last.err = "nil" \/ IsReset(last.err)
  /\ ~Appending(last.id)

\* The block predicate of the latest request.
C8_Blocked ==
  IF last.err # "nil" THEN TRUE
  ELSE checkBlocking(cfg, last.body, last.status)

\* The latest request is recorded in the passed bucket and in no other.
C8_InPassed ==
  /\ Noted(db.passedTests, last.id, last.additionalInfo)
  /\ ~Noted(db.blockedTests, last.id, last.additionalInfo)
  /\ ~Noted(db.naTests, last.id, last.additionalInfo)
  /\ ~Noted(db.failedTests, last.id, last.additionalInfo)

\* The latest request is recorded in the blocked bucket and in no other.
C8_InBlocked ==
  /\ Noted(db.blockedTests, last.id, last.additionalInfo)
  /\ ~Noted(db.passedTests, last.id, last.additionalInfo)
  /\ ~Noted(db.naTests, last.id, last.additionalInfo)
  /\ ~Noted(db.failedTests, last.id, last.additionalInfo)

\* C8 as stated: with templates, a request that is not gRPC is recorded
\* Passed if and only if validation succeeds and the block predicate is
\* false, and Blocked in every other case.
C8_ValidatedOrBlocked ==
  C8_Answered =>
    IF last.validationOK /\ ~C8_Blocked THEN C8_InPassed ELSE C8_InBlocked

\* The same holds of the requests whose route the router finds, at once or
\* on the retry with the template's path, and whose connection was not
\* reset while BlockConnReset is off.
C8_ValidatedWhenRouted ==
  (/\ C8_Answered
   /\ last.err = "nil" \/ cfg.BlockConnReset
   /\ last.route1 \/ last.route2) =>
    IF last.validationOK /\ ~C8_Blocked THEN C8_InPassed ELSE C8_InBlocked

\* An answered request whose route the router finds neither time is in no
\* bucket, the failed one included.
C8_Unrouted ==
  /\ C8_Answered /\ last.err = "nil" /\ ~last.route1 /\ ~last.route2
  /\ \A n \in BucketNames : ~Noted(db[n], last.id, last.additionalInfo)
  /\ ReturnsWith(last.id, "couldn't find request route")

\* ---------------------------------------------------------------- C9
\* The rows of the cases of negative sets with resolved requests.
ScoredRows ==
  {i \in DOMAIN AllRows :
     /\ ~Contains(AllRows[i].TestSet, "false")
     /\ AllRows[i].Blocked + AllRows[i].Bypassed > 0}

\* The percentage of a row is the block rate of its case, blocked of
\* resolved, to the nearest hundredth of a percent.
IsBlockRate(row) ==
  NearestTo(row.Percentage, row.Blocked * 10000, row.Blocked + row.Bypassed)

\* C9: the WAF score is, to the nearest hundredth of a percent, the mean
\* of the block rates of exactly the cases of negative sets with
\* resolved > 0, and 0 when there is none; cases with resolved = 0 and
\* cases of positive sets enter neither the sum nor the count.
C9_ScoreIsMean ==
  stats # <<>> =>
    IF ScoredRows = {} THEN stats[1].WafScore = 0
    ELSE /\ \A i \in ScoredRows : IsBlockRate(AllRows[i])
         /\ NearestTo(stats[1].WafScore,
                      SumOver([i \in DOMAIN AllRows |-> AllRows[i].Percentage],
                              ScoredRows),
                      Cardinality(ScoredRows))

\* One negative case blocked once and bypassed once, the other blocked
\* once: the score is the mean of 50.00 and 100.00.
C9_Witness ==
  /\ stats # <<>> /\ Cardinality(ScoredRows) = 2
  /\ stats[1].WafScore = 7500

\* --------------------------------------------------------------- C10
\* C10: whatever was recorded and whatever the two flags are, the WAF
\* score lies between 0 and 100 percent, and it is 0 when no case of a
\* negative set has a resolved request.
C10_ScoreInRange ==
  stats # <<>> =>
    /\ stats[1].WafScore >= 0 /\ stats[1].WafScore <= 10000
    /\ (\A i \in DOMAIN stats[1].SummaryTable :
          stats[1].SummaryTable[i].Blocked + stats[1].SummaryTable[i].Bypassed = 0)
         => stats[1].WafScore = 0

\* Negative cases with only unresolved and failed requests, a positive
\* case with a resolved one: the score is 0.
C10_Witness ==
  /\ stats # <<>> /\ stats[1].WafScore = 0
  /\ stats[1].UnresolvedRequestsNumber > 0 /\ stats[1].FailedRequestsNumber > 0
  /\ stats[1].PositiveTests.ResolvedRequestsNumber > 0

\* -------------------------------------------------- the report twice
\* The caller asks the store for its statistics a second time, with the
\* same flags and no record operation in between.
AggregateAgain ==
  /\ ~crashed /\ Len(stats) = 1
  /\ \E g \in {GetStatistics(db, cfg.IgnoreUnresolved, cfg.NonBlockedAsPassed)} :
       /\ stats' = Append(stats, g.stats)
       /\ db' = g.db
  /\ UNCHANGED <<config, wafCheck, ws, testChan, chanClosed, producer, ctxDone, workers, bar,
                  crashed, runErr, hist, last>>

\* Templates in an order that sort.Strings changes.
ReportTemplatePool ==
  <<[Method |-> "PUT", Path |-> "/a"], [Method |-> "POST", Path |-> "/a"],
    [Method |-> "GET", Path |-> "/b"]>>

ReportTemplates ==
  [nil |-> FALSE,
   map |-> [ph \in {"URLParam"} |-> SubSeq(ReportTemplatePool, 1, MaxTemplates)]]

\* A negative and a positive case, both sent through the templates.
ReportCatalog ==
  <<[Set |-> "owasp", Name |-> "xss", Type |-> "attack",
     Payloads |-> <<"p1">>, Encoders |-> <<"URL">>,
     Placeholders |-> <<"URLParam">>, IsTruePositive |-> TRUE],
    [Set |-> "false-pos", Name |-> "texts", Type |-> "benign",
     Payloads |-> <<"p1">>, Encoders |-> <<"URL">>,
     Placeholders |-> <<"URLParam">>, IsTruePositive |-> FALSE]>>

\* A target that answers 200 or 403 or fails with one of two transport
\* errors; the route of every request is found.
ReportTarget ==
  [responses |->
     {[err |-> "nil", status |-> 200, body |-> ""],
      [err |-> "nil", status |-> 403, body |-> ""],
      [err |-> "timeout", status |-> 0, body |-> ""],
      [err |-> "refused", status |-> 0, body |-> ""]},
   openapi |-> {o \in OpenAPIResults : o.route1},
   encoded |-> {TRUE},
   created |-> {TRUE}]

InitReport ==
  \E r \in {0, DefaultConfig.RandomDelay} :
    InitWith([DefaultConfig EXCEPT !.Workers = 1, !.RandomDelay = r], ReportTemplates,
             FALSE, ReportTarget, ReportCatalog)

NextReport ==
  \/ NextScan
  \/ AggregateAgain

SpecReport == InitReport /\ [][NextReport]_vars

\* ---------------------------------------------------- the producer
\* A catalog whose first case has two payloads, two encoders and two
\* placeholders, so that every loop of produceTests turns more than once.
ProduceCatalog ==
  <<[Set |-> "owasp", Name |-> "xss", Type |-> "attack",
     Payloads |-> <<"p1", "p2">>, Encoders |-> <<"URL", "Base64">>,
     Placeholders |-> <<"URLParam", "Header">>, IsTruePositive |-> TRUE],
    [Set |-> "false-pos", Name |-> "texts", Type |-> "benign",
     Payloads |-> <<"p1">>, Encoders |-> <<"URL">>,
     Placeholders |-> <<"Header">>, IsTruePositive |-> FALSE]>>

\* A target that blocks every request.
ProduceTarget ==
  [responses |-> {[err |-> "nil", status |-> 403, body |-> ""]},
   openapi |-> {NoOpenAPI}, encoded |-> {TRUE}, created |-> {TRUE}]

\* Run with two workers and without templates over the catalog above.
InitProduce ==
  \E env \in BOOLEAN, r \in {0, DefaultConfig.RandomDelay} :
    InitOf(env, [DefaultConfig EXCEPT !.RandomDelay = r], NoTemplates, FALSE,
           ProduceTarget, ProduceCatalog)

\* Run without templates: no template request is ever sent.
NextProduce ==
  \/ ProduceSend
  \/ ProduceCancelled
  \/ ProduceClose
  \/ Cancel
  \/ \E i \in DOMAIN workers : WorkerReceive(i)
  \/ \E i \in DOMAIN workers : WorkerClosed(i)
  \/ \E i \in DOMAIN workers : WorkerCancelled(i)
  \/ \E i \in DOMAIN workers : ScanURL(i)
  \/ \E i \in DOMAIN workers : Returns(i)
  \/ \E i \in DOMAIN workers : SleepPanics(i)
  \/ RunReturns
  \/ ProcessExits

SpecProduce == InitProduce /\ [][NextProduce]_vars

\* ------------------------------------------------- the send delay
\* The delays of the configuration: none, and the smallest jitters.
DelayConfigs ==
  {[DefaultConfig EXCEPT !.Workers = 1, !.SendDelay = s, !.RandomDelay = r] :
     s \in {0, 1}, r \in {0, 1, 2}}

\* Run with one worker and a target that never resets the connection, with
\* and without OpenAPI templates.
InitDelay ==
  \E c \in DelayConfigs, templates \in {NoTemplates, ReportTemplates} :
    InitWith(c, templates, FALSE, ReportTarget, ReportCatalog)

NextDelay == NextScan

SpecDelay == InitDelay /\ [][NextDelay]_vars

\* ------------------------------------------- the WebSocket pre-check
\* len(wsPreCheckVectors)
NumberOfVectors == 2

\* The errors of Dial, of WriteMessage and of ReadMessage.
WsDialErrors == {"bad handshake", "connection refused"}

WsWriteErrors == {"broken pipe", "close sent"}

WsReadErrors == {"i/o timeout", "close 1006"}

\* wsPreCheck has returned (available, blocked, err) from where it was.
WsReturned(available, blocked, err) ==
  [ws EXCEPT !.pc = "returned", !.at = ws.pc, !.available = available,
             !.blocked = blocked, !.err = err]

\* WAFwsBlockCheck, lines 162 and 173-175: the pre-check is skipped.
WsSkipped ==
  /\ ws.pc = "dial" /\ cfg.SkipWAFBlockCheck
  /\ ws' = [ws EXCEPT !.pc = "skipped"]
  /\ UNCHANGED <<config, wafCheck, db, testChan, chanClosed, producer, ctxDone,
                  workers, bar, crashed, runErr, stats, hist, last>>

\* wsPreCheck, lines 180-205: the dial; on success the reader goroutine is
\* started and the loop over the vectors begins.
WsDial ==
  /\ ws.pc = "dial" /\ ~cfg.SkipWAFBlockCheck
  /\ \E e \in WsDialErrors \cup {"nil"} :
       ws' = IF e # "nil" THEN WsReturned(FALSE, FALSE, e)
             ELSE [ws EXCEPT !.pc = "write", !.i = 0, !.reader = "reading"]
  /\ UNCHANGED <<config, wafCheck, db, testChan, chanClosed, producer, ctxDone,
                  workers, bar, crashed, runErr, stats, hist, last>>

\* wsPreCheck, lines 207-214: one round of the loop over the vectors.
WsWrite ==
  /\ ws.pc = "write"
  /\ \E e \in WsWriteErrors \cup {"nil"} :
       ws' = IF e # "nil" /\ ws.i = 0 THEN WsReturned(TRUE, FALSE, e)
             ELSE IF e # "nil" THEN WsReturned(TRUE, TRUE, "nil")
             ELSE IF ws.i + 1 < NumberOfVectors THEN [ws EXCEPT !.i = @ + 1]
             ELSE [ws EXCEPT !.pc = "wait"]
  /\ UNCHANGED <<config, wafCheck, db, testChan, chanClosed, producer, ctxDone,
                  workers, bar, crashed, runErr, stats, hist, last>>

\* wsPreCheck, lines 216-220: the receive from block returns once the
\* reader has closed it.
WsWait ==
  /\ ws.pc = "wait" /\ ws.reader = "stopped"
  /\ ws' = WsReturned(TRUE, ws.receivedCtr # NumberOfVectors, "nil")
  /\ UNCHANGED <<config, wafCheck, db, testChan, chanClosed, producer, ctxDone,
                  workers, bar, crashed, runErr, stats, hist, last>>

\* The reader goroutine, lines 197-202: the deadline is set anew and a
\* message of the peer arrives before it; the connection is still open.
WsReaderReads ==
  /\ ws.reader = "reading" /\ ws.pc # "returned"
  /\ ws' = [ws EXCEPT !.deadline = 1 - @,
                      !.receivedCtr = IF @ < MaxCounted THEN @ + 1 ELSE @]
  /\ UNCHANGED <<config, wafCheck, db, testChan, chanClosed, producer, ctxDone,
                  workers, bar, crashed, runErr, stats, hist, last>>

\* The reader goroutine, lines 198-200 and 195: ReadMessage fails (the
\* deadline expires, the peer closes, or wsPreCheck has returned and its
\* deferred Close has run) and block is closed.
WsReaderStops ==
  /\ ws.reader = "reading"
  /\ \E e \in WsReadErrors :
       (ws.pc = "returned" => e = "close 1006")
         /\ ws' = [ws EXCEPT !.reader = "stopped", !.readErr = e]
  /\ UNCHANGED <<config, wafCheck, db, testChan, chanClosed, producer, ctxDone,
                  workers, bar, crashed, runErr, stats, hist, last>>

\* A fresh Scanner before Run: only the WebSocket pre-check is in play.
InitWsCheck ==
  \E c \in {[DefaultConfig EXCEPT !.Workers = 0, !.SkipWAFBlockCheck = s] :
             s \in BOOLEAN} :
    /\ cfg = c
    /\ isTestEnv = FALSE
    /\ requestTemplates = NoTemplates
    /\ grpcAvailable = FALSE
    /\ target = NoTarget
    /\ testCases = <<>>
    /\ db = NewDB(<<>>, FALSE)
    /\ testChan = <<>>
    /\ chanClosed = FALSE
    /\ producer = [pc |-> "loop", next |-> 1]
    /\ ctxDone = FALSE
    /\ workers = <<>>
    /\ bar = 0
    /\ crashed = FALSE
    /\ runErr = "running"
    /\ stats = <<>>
    /\ hist = <<>>
    /\ last = NoRequest
    /\ wafCheck = NoWAFCheck
    /\ ws = [NoWsCheck EXCEPT !.pc = "dial"]

\* The goroutine of wsPreCheck.
WsMain ==
  \/ WsSkipped
  \/ WsDial
  \/ WsWrite
  \/ WsWait

\* The reader goroutine of wsPreCheck.
WsReader ==
  \/ WsReaderReads
  \/ WsReaderStops

NextWsCheck ==
  \/ WsMain
  \/ WsReader

\* wsPreCheck under a scheduler that leaves neither goroutine waiting
\* forever; whether the peer goes on sending is the peer's choice.
SpecWsCheck ==
  InitWsCheck /\ [][NextWsCheck]_vars /\ WF_vars(WsMain) /\ WF_vars(WsReader)

\* ------------------------------------------------- the WAF pre-check
\* The pre-check of a Scanner: the target answers each probe with one of
\* its responses.
WAFBlockCheckCall ==
  /\ wafCheck.pc = "-"
  /\ \E attack \in target.responses, benign \in target.responses :
       LET r == WAFBlockCheck(cfg, attack, benign)
       IN wafCheck' = [pc |-> "returned", probes |-> r.probes, err |-> r.err]
  /\ UNCHANGED <<config, ws, db, testChan, chanClosed, producer, ctxDone, workers,
                  bar, crashed, runErr, stats, hist, last>>

\* The answers of the target to a probe: statuses with and without the
\* block pattern in the body, and transport errors.
PreCheckTarget ==
  [responses |->
     {[err |-> "nil", status |-> s, body |-> b] :
        s \in {200, 403, 500}, b \in {"", "deny"}}
     \cup SendErrors,
   openapi |-> {}, encoded |-> {}, created |-> {}]

\* The configurations of the pre-check: skipped or not, resets taken for
\* blocks or not, block by one of two status codes or by pattern.
PreCheckConfigs ==
  {[DefaultConfig EXCEPT !.Workers = 0, !.SkipWAFBlockCheck = s,
                         !.BlockConnReset = r, !.BlockRegex = x,
                         !.BlockStatusCode = b] :
     s \in BOOLEAN, r \in BOOLEAN, x \in {"", "deny"}, b \in {403, 500}}

\* A fresh Scanner before Run: only the pre-check is in play.
InitPreCheck ==
  \E c \in PreCheckConfigs :
    /\ cfg = c
    /\ isTestEnv = FALSE
    /\ requestTemplates = NoTemplates
    /\ grpcAvailable = FALSE
    /\ target = PreCheckTarget
    /\ testCases = <<>>
    /\ db = NewDB(<<>>, FALSE)
    /\ testChan = <<>>
    /\ chanClosed = FALSE
    /\ producer = [pc |-> "loop", next |-> 1]
    /\ ctxDone = FALSE
    /\ workers = <<>>
    /\ bar = 0
    /\ crashed = FALSE
    /\ runErr = "running"
    /\ stats = <<>>
    /\ hist = <<>>
    /\ last = NoRequest
    /\ wafCheck = NoWAFCheck
    /\ ws = NoWsCheck

NextPreCheck == WAFBlockCheckCall

SpecPreCheck == InitPreCheck /\ [][NextPreCheck]_vars

\* ------------------------------------------------ the scanned paths
\* The methods and paths of the requests that are recorded as scanned.
PathPool ==
  {[Method |-> m, Path |-> q] : m \in {"GET", "POST", "PUT"},
                                q \in {"/a", "/ab", "/b"}}

\* A caller records the method and the path of a request it has sent.
AddPath ==
  /\ stats = <<>>
  /\ \E q \in PathPool : db' = AddToScannedPaths(db, q.Method, q.Path)
  /\ UNCHANGED <<config, wafCheck, ws, testChan, chanClosed, producer, ctxDone,
                  workers, bar, crashed, runErr, stats, hist, last>>

\* A fresh store after a run; only its scanned paths are written.
InitPaths ==
  /\ cfg = [DefaultConfig EXCEPT !.Workers = 0]
  /\ isTestEnv = FALSE
  /\ requestTemplates = NoTemplates
  /\ grpcAvailable = FALSE
  /\ target = NoTarget
  /\ testCases = StatsCatalog
  /\ db = NewDB(StatsCatalog, FALSE)
  /\ testChan = <<>>
  /\ chanClosed = TRUE
  /\ producer = [pc |-> "done", next |-> 1]
  /\ ctxDone = FALSE
  /\ workers = <<>>
  /\ bar = 0
  /\ crashed = FALSE
  /\ runErr = "nil"
  /\ stats = <<>>
  /\ hist = <<>>
  /\ last = NoRequest
  /\ wafCheck = NoWAFCheck
  /\ ws = NoWsCheck

NextPaths ==
  \/ AddPath
  \/ Aggregate
  \/ AggregateAgain

SpecPaths == InitPaths /\ [][NextPaths]_vars

\* ------------------------------------------- reading the statistics
\* The number of Infos of the case key = <<set, case>> in a bucket.
CountIn(bucket, key) ==
  Cardinality({i \in DOMAIN bucket :
                 bucket[i].Set = key[1] /\ bucket[i].Case = key[2]})

\* The number of Infos in a bucket whose set is positive, or negative.
CountOf(bucket, positive) ==
  Cardinality({i \in DOMAIN bucket :
                 Contains(bucket[i].Set, "false") = positive})

\* The positions in a summary table of the rows of the case key.
RowsOf(table, key) ==
  {i \in DOMAIN table : table[i].TestSet = key[1] /\ table[i].TestCase = key[2]}

\* The store as it would be had no unresolved variant been recorded.
WithoutUnresolved(d) ==
  [d EXCEPT !.naTests = <<>>,
            !.counters = [k \in DOMAIN d.counters |->
                            [passed |-> CountIn(d.passedTests, k),
                             blocked |-> CountIn(d.blockedTests, k),
                             failed |-> CountIn(d.failedTests, k)]]]

\* The details of an Info as the detail lists report it.
DetailOf(t) ==
  [Payload |-> t.Payload, TestCase |-> t.Case, TestSet |-> t.Set,
   Encoder |-> t.Encoder, Placeholder |-> t.Placeholder,
   ResponseStatusCode |-> t.ResponseStatusCode,
   AdditionalInfo |-> t.AdditionalInfo, Type |-> t.Type]

\* The detail list holds the details of the Info.
Reported(list, t) == \E i \in DOMAIN list : list[i] = DetailOf(t)

\* --------------------------------------------------------------- C11
\* C11 as stated: with IgnoreUnresolved set every row has Unresolved = 0,
\* and the rows and the score are those of the same store without its
\* unresolved variants.
C11_UnresolvedIgnored ==
  (stats # <<>> /\ cfg.IgnoreUnresolved) =>
    LET without == GetStatistics(WithoutUnresolved(db), cfg.IgnoreUnresolved,
                                 cfg.NonBlockedAsPassed).stats
    IN /\ \A i \in DOMAIN AllRows : AllRows[i].Unresolved = 0
       /\ stats[1].SummaryTable = without.SummaryTable
       /\ stats[1].PositiveTests.SummaryTable = without.PositiveTests.SummaryTable
       /\ stats[1].WafScore = without.WafScore

\* C11, amended: with IgnoreUnresolved set every row has Unresolved = 0
\* and every unresolved variant is counted among the resolved requests of
\* its case, as bypassed or as blocked: bypassed + blocked of a row is the
\* number of passed, blocked and unresolved Infos of the case, and Sent
\* adds the failed ones.
C11_UnresolvedCounted ==
  (stats # <<>> /\ cfg.IgnoreUnresolved) =>
    /\ stats[1].UnresolvedRequestsNumber = 0
    /\ stats[1].PositiveTests.UnresolvedRequestsNumber = 0
    /\ \A i \in DOMAIN AllRows :
         LET key == <<AllRows[i].TestSet, AllRows[i].TestCase>>
         IN /\ AllRows[i].Unresolved = 0
            /\ AllRows[i].Bypassed >= CountIn(db.passedTests, key)
            /\ AllRows[i].Blocked >= CountIn(db.blockedTests, key)
            /\ AllRows[i].Bypassed + AllRows[i].Blocked =
                 CountIn(db.passedTests, key) + CountIn(db.blockedTests, key)
                 + CountIn(db.naTests, key)
            /\ AllRows[i].Sent =
                 AllRows[i].Bypassed + AllRows[i].Blocked
                 + CountIn(db.failedTests, key)

\* Only IgnoreUnresolved is set, a negative case has one blocked and one
\* unresolved variant: the unresolved one is counted and the row is 50.00
\* where it would be 100.00 without it.
C11_Witness ==
  /\ stats # <<>> /\ cfg.IgnoreUnresolved /\ ~cfg.NonBlockedAsPassed
  /\ \E i \in DOMAIN stats[1].SummaryTable :
       LET row == stats[1].SummaryTable[i]
           key == <<row.TestSet, row.TestCase>>
       IN /\ CountIn(db.naTests, key) = 1 /\ CountIn(db.blockedTests, key) = 1
          /\ CountIn(db.passedTests, key) = 0
          /\ row.Bypassed + row.Blocked = 2 /\ row.Percentage = 5000

\* --------------------------------------------------------------- C12
\* C12: with NonBlockedAsPassed set every unresolved Info is reported in
\* Bypasses (negative set) or in PositiveTests.FalsePositive (positive
\* set) and both Unresolved lists are empty; with both flags unset every
\* unresolved Info is reported in the Unresolved list of its partition and
\* nowhere else: the other lists hold the passed and the blocked Infos only.
C12_UnresolvedDetails ==
  stats # <<>> =>
    LET s == stats[1]
        na == db.naTests
    IN /\ cfg.NonBlockedAsPassed =>
            /\ \A i \in DOMAIN na :
                 IF Contains(na[i].Set, "false")
                 THEN Reported(s.PositiveTests.FalsePositive, na[i])
                 ELSE Reported(s.Bypasses, na[i])
            /\ s.Unresolved = <<>> /\ s.PositiveTests.Unresolved = <<>>
            /\ Len(s.Bypasses) = CountOf(db.passedTests, FALSE) + CountOf(na, FALSE)
            /\ Len(s.PositiveTests.FalsePositive) =
                 CountOf(db.blockedTests, TRUE) + CountOf(na, TRUE)
       /\ (~cfg.NonBlockedAsPassed /\ ~cfg.IgnoreUnresolved) =>
            /\ \A i \in DOMAIN na :
                 IF Contains(na[i].Set, "false")
                 THEN Reported(s.PositiveTests.Unresolved, na[i])
                 ELSE Reported(s.Unresolved, na[i])
            /\ Len(s.Unresolved) = CountOf(na, FALSE)
            /\ Len(s.PositiveTests.Unresolved) = CountOf(na, TRUE)
            /\ Len(s.Bypasses) = CountOf(db.passedTests, FALSE)
            /\ Len(s.PositiveTests.FalsePositive) = CountOf(db.blockedTests, TRUE)
       /\ Len(s.Blocked) = CountOf(db.blockedTests, FALSE)
       /\ Len(s.PositiveTests.TruePositive) = CountOf(db.passedTests, TRUE)

\* NonBlockedAsPassed alone is set; an unresolved Info of a negative set
\* and one of a positive set are reported in Bypasses and FalsePositive.
C12_Witness ==
  /\ stats # <<>> /\ cfg.NonBlockedAsPassed /\ ~cfg.IgnoreUnresolved
  /\ CountOf(db.naTests, FALSE) = 1 /\ CountOf(db.naTests, TRUE) = 1
  /\ Len(stats[1].Bypasses) = 1 /\ Len(stats[1].PositiveTests.FalsePositive) = 1

\* --------------------------------------------------------------- C13
\* The negative case of the scan catalog, whose only variant is the first.
OnlyVariantUnresolved ==
  /\ stats # <<>> /\ cfg.NonBlockedAsPassed /\ requestTemplates.nil
  /\ ~isPositiveTest(WorkOf(1).setName)
  /\ \A id \in DOMAIN hist :
       (WorkOf(id).setName = WorkOf(1).setName
        /\ WorkOf(id).caseName = WorkOf(1).caseName) => id = 1
  /\ InfosOf(db.naTests, 1) # {}

\* C13: with NonBlockedAsPassed set, a negative case whose only variant is
\* unresolved has the row Bypassed = 1, Blocked = 0, Unresolved = 0 and
\* percentage 0.00, the WAF score is 0.00 and the Info is in Bypasses.
C13_UnresolvedBypassed ==
  OnlyVariantUnresolved =>
    /\ \E i \in DOMAIN stats[1].SummaryTable :
         LET row == stats[1].SummaryTable[i]
         IN /\ row.TestSet = WorkOf(1).setName /\ row.TestCase = WorkOf(1).caseName
            /\ row.Bypassed = 1 /\ row.Blocked = 0 /\ row.Unresolved = 0
            /\ row.Failed = 0 /\ row.Sent = 1 /\ row.Percentage = 0
    /\ Len(stats[1].SummaryTable) = 1
    /\ stats[1].WafScore = 0
    /\ \E i \in DOMAIN stats[1].Bypasses :
         stats[1].Bypasses[i].TestCase = WorkOf(1).caseName

\* The only variant of the negative case was sent directly, the connection
\* was reset and BlockConnReset is not set.
C13_Witness ==
  /\ OnlyVariantUnresolved /\ ~cfg.BlockConnReset /\ ~cfg.IgnoreUnresolved
  /\ hist[1].reqs = 1 /\ runErr = "nil"
  /\ \E i \in InfosOf(db.naTests, 1) : db.naTests[i].ResponseStatusCode = 0

\* --------------------------------------------------------------- C14
\* x is the percentage of part in whole to the nearest hundredth of a
\* percent; 0 of nothing.
RateOf(x, part, whole) ==
  IF whole = 0 THEN x = 0 ELSE NearestTo(x, part * 10000, whole)

\* C14: a case whose set name contains "false" has its one row in
\* PositiveTests.SummaryTable, with percentage passed/resolved; every other
\* case has its one row in SummaryTable, with percentage blocked/resolved;
\* a row with resolved = 0 has percentage 0; the totals of each partition
\* are the sums over its own rows.
C14_Partition ==
  stats # <<>> =>
    LET s == stats[1]
        neg == s.SummaryTable
        pos == s.PositiveTests.SummaryTable
    IN /\ \A key \in DOMAIN db.counters :
            IF Contains(key[1], "false")
            THEN /\ Cardinality(RowsOf(pos, key)) = 1 /\ RowsOf(neg, key) = {}
                 /\ \A i \in RowsOf(pos, key) :
                      RateOf(pos[i].Percentage, pos[i].Bypassed,
                             pos[i].Bypassed + pos[i].Blocked)
            ELSE /\ Cardinality(RowsOf(neg, key)) = 1 /\ RowsOf(pos, key) = {}
                 /\ \A i \in RowsOf(neg, key) :
                      RateOf(neg[i].Percentage, neg[i].Blocked,
                             neg[i].Bypassed + neg[i].Blocked)
       /\ Len(neg) + Len(pos) = Cardinality(DOMAIN db.counters)
       /\ s.BlockedRequestsNumber = SumOver([i \in DOMAIN neg |-> neg[i].Blocked], DOMAIN neg)
       /\ s.BypassedRequestsNumber = SumOver([i \in DOMAIN neg |-> neg[i].Bypassed], DOMAIN neg)
       /\ s.UnresolvedRequestsNumber = SumOver([i \in DOMAIN neg |-> neg[i].Unresolved], DOMAIN neg)
       /\ s.FailedRequestsNumber = SumOver([i \in DOMAIN neg |-> neg[i].Failed], DOMAIN neg)
       /\ s.PositiveTests.BlockedRequestsNumber =
            SumOver([i \in DOMAIN pos |-> pos[i].Blocked], DOMAIN pos)
       /\ s.PositiveTests.BypassedRequestsNumber =
            SumOver([i \in DOMAIN pos |-> pos[i].Bypassed], DOMAIN pos)
       /\ s.PositiveTests.UnresolvedRequestsNumber =
            SumOver([i \in DOMAIN pos |-> pos[i].Unresolved], DOMAIN pos)
       /\ s.PositiveTests.FailedRequestsNumber =
            SumOver([i \in DOMAIN pos |-> pos[i].Failed], DOMAIN pos)

\* The positive case passed twice and was blocked once: its row is 66.67
\* and it adds to the PositiveTests totals only.
C14_Witness ==
  /\ stats # <<>>
  /\ \E i \in DOMAIN stats[1].PositiveTests.SummaryTable :
       LET row == stats[1].PositiveTests.SummaryTable[i]
       IN row.Bypassed = 2 /\ row.Blocked = 1 /\ row.Percentage = 6667
  /\ stats[1].PositiveTests.BypassedRequestsNumber = 2
  /\ stats[1].BypassedRequestsNumber = 0 /\ stats[1].BlockedRequestsNumber = 0

\* --------------------------------------------------------------- C15
\* C15: a second GetStatistics with the same flags and no record operation
\* in between returns the Statistics of the first: rows, detail lists with
\* their additionalInfo, totals, score and paths.
C15_SameStatistics == Len(stats) = 2 => stats[2] = stats[1]

\* The statistics were computed twice for a store in which the first call
\* sorted an additionalInfo that the templates had appended in another order.
C15_Witness ==
  /\ Len(stats) = 2
  /\ \E i \in DOMAIN stats[1].Blocked :
       stats[1].Blocked[i].AdditionalInfo = <<"POST /a", "PUT /a">>
  /\ Len(stats[1].Paths) >= 2

\* --------------------------------------------------------------- C16
\* The strings of a list are in ascending order.
Sorted(seq) ==
  \A k \in 1..(Len(seq) - 1) : ~StrLess(seq[k + 1], seq[k])

\* Every entry of a list of TestDetails has a sorted additionalInfo.
AllSorted(list) == \A i \in DOMAIN list : Sorted(list[i].AdditionalInfo)

\* The additionalInfo of every entry of Blocked, Bypasses, Unresolved and
\* of the positive-test lists of TestDetails is sorted.
C16_DetailsSorted ==
  stats # <<>> =>
    /\ AllSorted(stats[1].Blocked) /\ AllSorted(stats[1].Bypasses)
    /\ AllSorted(stats[1].Unresolved)
    /\ AllSorted(stats[1].PositiveTests.FalsePositive)
    /\ AllSorted(stats[1].PositiveTests.TruePositive)
    /\ AllSorted(stats[1].PositiveTests.Unresolved)

\* C16 as stated: the additionalInfo of every reported record is sorted
\* ascending, the Reason of every Failed entry included.
C16_AllSorted ==
  stats # <<>> =>
    /\ C16_DetailsSorted
    /\ \A i \in DOMAIN stats[1].Failed : Sorted(stats[1].Failed[i].Reason)
    /\ \A i \in DOMAIN stats[1].PositiveTests.Failed :
         Sorted(stats[1].PositiveTests.Failed[i].Reason)

\* --------------------------------------------------------------- C17
\* C17 as stated: the progress count is the number of variants consumed
\* by the workers, less the variants a worker still holds on its way to
\* bar.Add(1); after a run that was not cancelled it is the number of
\* variants emitted.
C17_ProgressPerVariant ==
  /\ bar + Cardinality(Holding) = Cardinality(Consumed)
  /\ runErr = "nil" => bar = NumberOfAllTestCases(testCases)

\* The progress count is the number of variants consumed less those still
\* held and those whose worker panicked; after a run that was not
\* cancelled and in which no worker panicked it is the number of variants
\* emitted.
C17_ProgressOrPanics ==
  /\ bar + Cardinality(Holding) + Cardinality(PanickedWorkers)
       = Cardinality(Consumed)
  /\ (runErr = "nil" /\ ~Panicked) => bar = NumberOfAllTestCases(testCases)

\* A complete scan in which one variant sent two template requests and
\* ended with an error: the count is the number of variants.
C17_Complete ==
  /\ runErr = "nil" /\ bar = NumberOfAllTestCases(testCases) /\ bar >= 2
  /\ \E id \in DOMAIN hist :
       hist[id].reqs = 2 /\ hist[id].ret = "couldn't find request route"

\* --------------------------------------------------------------- C18
\* The block signal fires on the answer of a probe.
Fires(probe) ==
  probe.resp.err = "nil"
    /\ checkBlocking(cfg, probe.resp.body, probe.resp.status)

\* C18: a skipped pre-check sends nothing and returns nil. Otherwise the
\* first probe carries the attack vector, and the pre-check returns nil
\* exactly when the block signal fires on its answer, or when it was reset,
\* BlockConnReset is set and a second probe with the empty payload was
\* answered without the block signal; an attack probe answered without the
\* block signal gives "WAF was not detected", and every other error of a
\* probe is returned as an error.
C18_PreCheck ==
  wafCheck.pc = "returned" =>
    LET p == wafCheck.probes
        reset == cfg.BlockConnReset /\ IsReset(p[1].resp.err)
    IN IF cfg.SkipWAFBlockCheck THEN p = <<>> /\ wafCheck.err = "nil"
       ELSE /\ Len(p) \in {1, 2}
            /\ p[1].payload = preCheckVector
            /\ Len(p) = 2 <=> reset
            /\ Len(p) = 2 => p[2].payload = ""
            /\ wafCheck.err = "nil" <=>
                 \/ Fires(p[1])
                 \/ reset /\ p[2].resp.err = "nil" /\ ~Fires(p[2])
            /\ (p[1].resp.err = "nil" /\ ~Fires(p[1]))
                 => wafCheck.err = "WAF was not detected"
            /\ (p[1].resp.err # "nil" /\ ~reset)
                 => wafCheck.err = "running pre-check"
            /\ (reset /\ p[2].resp.err # "nil")
                 => wafCheck.err = "running benign request pre-check"

\* The attack probe was reset, the benign probe was answered with the block
\* status code while the block signal is a pattern, and the pre-check
\* returned nil.
C18_Witness ==
  /\ wafCheck.pc = "returned" /\ wafCheck.err = "nil"
  /\ ~cfg.SkipWAFBlockCheck /\ cfg.BlockConnReset /\ cfg.BlockRegex = "deny"
  /\ Len(wafCheck.probes) = 2
  /\ wafCheck.probes[1].resp.err = "ECONNRESET"
  /\ wafCheck.probes[2].resp.status = 403

\* --------------------------------------------------------------- C19
\* The scan has stopped on the cancellation: the producer has returned and
\* closed the channel, every worker has exited, Run has returned the
\* context's error.
Stopped ==
  /\ producer.pc = "done" /\ chanClosed
  /\ \A i \in DOMAIN workers : workers[i].pc = "exited"
  /\ runErr = "context canceled"

\* C19 as stated: once the context is cancelled the producer closes the
\* channel, every worker exits and Run returns the cancellation error.
C19_CancelStops == ctxDone ~> Stopped

\* Once the context is cancelled the scan stops as above, or a worker
\* panics and the process ends.
C19_CancelStopsOrPanics == ctxDone ~> (Stopped \/ crashed)

\* Run returns the cancellation error only when the context is cancelled
\* and every worker has returned or panicked, and nil, unless a worker
\* panicked, only when the catalog was scanned whole.
C19_CancelDistinct ==
  /\ runErr = "context canceled" =>
       ctxDone /\ \A i \in DOMAIN workers : workers[i].pc \in {"exited", "panicked"}
  /\ (runErr = "nil" /\ ~Panicked) => bar = NumberOfAllTestCases(testCases)

\* --------------------------------------------------------------- C20
\* C20 as stated: with sendDelay = 0 and randomDelay = 0 the worker that
\* received a variant does not fail.
C20_ZeroDelayDispatches ==
  (cfg.SendDelay = 0 /\ cfg.RandomDelay = 0) => ~Panicked

\* With a positive randomDelay every received variant is dispatched: no
\* worker fails, and after the run every variant has been returned for.
C20_PositiveDelayDispatches ==
  cfg.RandomDelay > 0 =>
    /\ ~Panicked
    /\ runErr = "nil" => \A id \in DOMAIN hist : hist[id].ret # "-"

\* --------------------------------------------------------------- C21
\* The position of x in a list without repetitions.
IndexOf(seq, x) == CHOOSE k \in DOMAIN seq : seq[k] = x

\* The position of a testWork in the catalog: the index of its case, and
\* the indices of its payload, encoder and placeholder in the case.
KeyOf(work) ==
  LET c == CHOOSE k \in DOMAIN testCases :
             testCases[k].Set = work.setName /\ testCases[k].Name = work.caseName
  IN <<c, IndexOf(testCases[c].Payloads, work.payload),
       IndexOf(testCases[c].Encoders, work.encoder),
       IndexOf(testCases[c].Placeholders, work.placeholder)>>

\* Lexicographic order of two positions.
KeyLess(a, b) ==
  \E k \in 1..4 : a[k] < b[k] /\ \A j \in 1..(k - 1) : a[j] = b[j]

\* The combinations of the catalog, as positions.
Combinations ==
  UNION {{<<c, p, e, h>> : p \in DOMAIN testCases[c].Payloads,
                           e \in DOMAIN testCases[c].Encoders,
                           h \in DOMAIN testCases[c].Placeholders} :
           c \in DOMAIN testCases}

\* The variants handed to the channel so far.
Emitted == producer.next - 1

\* C21: the producer's sequence holds every combination of the catalog
\* once, ordered by case, then payload, then encoder, then placeholder; the
\* variants handed over so far are its first ones, those still in the
\* channel in that order and those before them each received once; and a
\* channel closed without cancellation has been handed the whole sequence.
C21_EmittedInOrder ==
  LET all == WorkOfCases(testCases)
  IN /\ {KeyOf(all[i]) : i \in DOMAIN all} = Combinations
     /\ Len(all) = Cardinality(Combinations)
     /\ \A i, j \in DOMAIN all : i < j => KeyLess(KeyOf(all[i]), KeyOf(all[j]))
     /\ Emitted <= Len(all)
     /\ \A k \in DOMAIN testChan :
          testChan[k] = [work |-> all[Emitted - Len(testChan) + k],
                         id |-> Emitted - Len(testChan) + k]
     /\ \A id \in DOMAIN hist :
          hist[id].takes = IF id <= Emitted - Len(testChan) THEN 1 ELSE 0
     /\ (chanClosed /\ ~ctxDone) => Emitted = Len(all)

\* The whole catalog went through the channel: nine variants, the second
\* of them differing from the first in its placeholder, the third in its
\* encoder, the fifth in its payload.
C21_Witness ==
  LET all == WorkOfCases(testCases)
  IN /\ runErr = "nil" /\ chanClosed /\ Emitted = 9
     /\ \A id \in DOMAIN hist : hist[id].takes = 1
     /\ KeyOf(all[2]) = <<1, 1, 1, 2>> /\ KeyOf(all[3]) = <<1, 1, 2, 1>>
     /\ KeyOf(all[5]) = <<1, 2, 1, 1>> /\ KeyOf(all[9]) = <<2, 1, 1, 1>>

\* --------------------------------------------------------------- C22
\* passed + blocked + failed of the counters of a case.
CounterSum(key) ==
  db.counters[key].passed + db.counters[key].blocked + db.counters[key].failed

\* The variants of a case with an Info in some bucket.
RecordedVariants(key) ==
  {id \in DOMAIN hist :
     /\ WorkOf(id).setName = key[1] /\ WorkOf(id).caseName = key[2]
     /\ RecordsOf(id) > 0}

\* C22 as stated: for every case the three counters and the number of
\* unresolved Infos add up to the number of variants recorded so far.
C22_SumIsRecordedVariants ==
  \A key \in DOMAIN db.counters :
    CounterSum(key) + CountIn(db.naTests, key)
      = Cardinality(RecordedVariants(key))

\* C22: at every point of a run the three counters of a case add up to the
\* number of its Infos in the four buckets, the unresolved ones included
\* (each is counted as blocked or as passed); failed counts the failed
\* Infos; and a variant sent without templates has at most one Info.
C22_CountersCountInfos ==
  /\ \A key \in DOMAIN db.counters :
       /\ CounterSum(key)
            = CountIn(db.passedTests, key) + CountIn(db.blockedTests, key)
              + CountIn(db.failedTests, key) + CountIn(db.naTests, key)
       /\ db.counters[key].failed = CountIn(db.failedTests, key)
       /\ db.counters[key].passed >= CountIn(db.passedTests, key)
       /\ db.counters[key].blocked >= CountIn(db.blockedTests, key)
  /\ \A id \in DOMAIN hist : ~IsTemplateVariant(id) => RecordsOf(id) <= 1

\* A run without templates has recorded one variant of a case, as
\* unresolved: the counters of the case add up to one and the unresolved
\* bucket holds one Info of it.
C22_Witness ==
  /\ requestTemplates.nil /\ ~Panicked
  /\ \E key \in DOMAIN db.counters :
       /\ CounterSum(key) = 1 /\ CountIn(db.naTests, key) = 1
       /\ Cardinality(RecordedVariants(key)) = 1

\* --------------------------------------------------------------- C23
\* Neither counting policy is set.
NoPolicy == ~cfg.IgnoreUnresolved /\ ~cfg.NonBlockedAsPassed

\* The case has one Info, in the unresolved bucket, and none elsewhere.
OnlyUnresolved(key) ==
  /\ CountIn(db.naTests, key) = 1
  /\ CountIn(db.blockedTests, key) + CountIn(db.passedTests, key)
       + CountIn(db.failedTests, key) = 0

\* C23: the blocked count of a row is the counter less the unresolved
\* Infos of the case when neither flag is set, with the row's unresolved
\* count their number; with a flag set it is the counter itself and the
\* unresolved count is 0. A negative case with one variant, unresolved,
\* under no flag has the row unresolved 1, blocked 0, bypassed 0, 0.00, and
\* is not among the cases of the score.
C23_BlockedAdjusted ==
  stats # <<>> =>
    \A key \in DOMAIN db.counters :
      /\ RowsOf(AllRows, key) # {}
      /\ \A i \in RowsOf(AllRows, key) :
           /\ AllRows[i].Blocked =
                IF NoPolicy
                THEN db.counters[key].blocked - CountIn(db.naTests, key)
                ELSE db.counters[key].blocked
           /\ AllRows[i].Unresolved =
                IF NoPolicy THEN CountIn(db.naTests, key) ELSE 0
           /\ (NoPolicy /\ OnlyUnresolved(key) /\ ~Contains(key[1], "false")) =>
                /\ AllRows[i].Unresolved = 1 /\ AllRows[i].Blocked = 0
                /\ AllRows[i].Bypassed = 0 /\ AllRows[i].Percentage = 0
                /\ i \notin ScoredRows
                /\ NumberOfRecords(db) = 1 => stats[1].WafScore = 0

\* The statistics of a store whose one record is an unresolved variant of
\* a negative case, computed under no flag.
C23_Witness ==
  /\ stats # <<>> /\ NoPolicy /\ NumberOfRecords(db) = 1
  /\ \E key \in DOMAIN db.counters :
       OnlyUnresolved(key) /\ ~Contains(key[1], "false")

\* --------------------------------------------------------------- C24
\* This step sends a template request of variant id.
TemplateRequest(id) ==
  IsTemplateVariant(id) /\ hist'[id].reqs = hist[id].reqs + 1

\* The bucket is left alone, or the variant's Info in it gets the entry s.
AloneOrAppended(n, id, s) ==
  \/ db'[n] = db[n]
  \/ \E k \in InfosOf(db[n], id) : db'[n] = AppendInfo(db[n], k, s)

\* The number of Infos in the four buckets.
InfoCount == NumberOfRecords(db)

\* The sum of the three counters over all cases.
CounterTotal ==
  SumOver([key \in DOMAIN db.counters |-> CounterSum(key)], DOMAIN db.counters)

\* C24 as stated: a template request of a variant that already has an Info
\* in a bucket leaves the bucket alone or appends its 'METHOD path' to that
\* Info, in each of the four buckets.
C24_AppendsPath ==
  [][\A id \in DOMAIN hist :
       TemplateRequest(id) =>
         \A n \in BucketNames :
           InfosOf(db[n], id) # {} => AloneOrAppended(n, id, last'.additionalInfo)]_vars

\* C24: a template request of a variant adds an Info to a bucket only when
\* the variant has none there, never more than one, and the counters grow
\* by the Infos added; where the variant has an Info already the bucket is
\* left alone or the Info gets one entry: the request's 'METHOD path' in the
\* blocked, passed and unresolved buckets, the error's message in the
\* failed bucket.
C24_OneRecordPerBucket ==
  [][\A id \in DOMAIN hist :
       TemplateRequest(id) =>
         /\ \A n \in BucketNames :
              /\ Cardinality(InfosOf(db'[n], id)) <= 1
              /\ Len(db'[n]) > Len(db[n]) => InfosOf(db[n], id) = {}
              /\ InfosOf(db[n], id) # {} =>
                   AloneOrAppended(n, id, IF n = "failedTests" THEN last'.err
                                         ELSE last'.additionalInfo)
         /\ CounterTotal' - CounterTotal = InfoCount' - InfoCount]_vars

\* A variant whose two template requests were both recorded as passed: one
\* Info in the passed bucket with the two 'METHOD path' entries, the
\* counter of its case at one.
C24_Witness ==
  \E id \in DOMAIN hist : \E i \in InfosOf(db.passedTests, id) :
    /\ db.passedTests[i].AdditionalInfo = <<"GET /b", "POST /a">>
    /\ hist[id].reqs = 2 /\ RecordsOf(id) = 1
    /\ CounterSum(<<WorkOf(id).setName, WorkOf(id).caseName>>) = 1

\* --------------------------------------------------------------- C25
\* The result of the WebSocket pre-check by how it went: the dial failed,
\* the first or the second write failed, or both writes succeeded and the
\* reader stopped after a number of messages.
C25_Result ==
  ws.pc = "returned" =>
    /\ ws.at = "dial" =>
         (~ws.available /\ ~ws.blocked /\ ws.err \in WsDialErrors)
    /\ (ws.at = "write" /\ ws.i = 0) =>
         (ws.available /\ ~ws.blocked /\ ws.err \in WsWriteErrors)
    /\ (ws.at = "write" /\ ws.i = 1) =>
         (ws.available /\ ws.blocked /\ ws.err = "nil")
    /\ ws.at = "wait" =>
         /\ ws.reader = "stopped" /\ ws.available /\ ws.err = "nil"
         /\ ws.blocked <=> ws.receivedCtr # NumberOfVectors

\* C25 as stated, its last sentence: the WebSocket pre-check, when not
\* skipped, always returns.
C25_Terminates == <>(ws.pc \in {"returned", "skipped"})

\* Once the reader has stopped, the pre-check returns.
C25_ReturnsAfterReader == (ws.reader = "stopped") ~> (ws.pc = "returned")

\* --------------------------------------------------------------- C26
\* Run has returned nil and every variant of the catalog was consumed and
\* returned for.
Completed ==
  /\ runErr = "nil" /\ bar = NumberOfAllTestCases(testCases)
  /\ \A id \in DOMAIN hist : hist[id].takes = 1 /\ hist[id].ret # "-"

\* C26 as stated: whatever the target, the encoder, the templates and the
\* router answer, a scan that is not cancelled ends with Run returning nil
\* after every emitted variant was consumed.
C26_RunCompletes == <>Completed

\* A scan that is not cancelled ends with Run returning nil, or with the
\* panic of a worker.
C26_RunCompletesOrPanics == <>(Completed \/ crashed)

\* A worker that got an error from scanURL is back at its select, and Run
\* returns nothing but nil.
C26_ErrorsStayInside ==
  /\ runErr \in {"running", "nil"}
  /\ \A id \in DOMAIN hist :
       hist[id].ret \notin {"-", "nil"} =>
         \A i \in DOMAIN workers :
           workers[i].w.id = id => workers[i].pc \notin {"scan", "template", "append", "path"}

\* --------------------------------------------------------------- C27
\* The latest request went through a template, was answered, and the
\* router did not find its route at first; updateDB has made its append.
C27_Retried ==
  /\ last.id # 0 /\ ~requestTemplates.nil /\ ~last.isGRPC
  /\ last.err = "nil" /\ ~last.route1
  /\ ~Appending(last.id)

\* C27 as stated, its last case: when the lookup with the template's path
\* fails as well, the variant is recorded as Failed.
C27_SecondFailureIsFailed ==
  (C27_Retried /\ ~last.route2) => InfosOf(db.failedTests, last.id) # {}

\* When the lookup with the template's path succeeds the request is
\* recorded by validation and the block predicate, as one whose route was
\* found at once; when it fails scanURL returns the error.
C27_RetriedOnce ==
  C27_Retried =>
    IF last.route2
    THEN IF last.validationOK /\ ~checkBlocking(cfg, last.body, last.status)
         THEN C8_InPassed ELSE C8_InBlocked
    ELSE ReturnsWith(last.id, "couldn't find request route")

\* --------------------------------------------------------------- C28
\* Variant id has the gRPC encoder.
IsGRPCVariant(id) == WorkOf(id).encoder = DefaultGRPCEncoder

\* The bucket the two predicates send the latest response to.
C28_Bucket ==
  LET b == checkBlocking(cfg, last.body, last.status)
      p == checkPass(cfg, last.body, last.status)
  IN IF b /\ ~p THEN "blockedTests"
     ELSE IF p /\ ~b THEN "passedTests"
     ELSE "naTests"

\* C28: a gRPC variant scanURL has returned for was received once and
\* returned nil. With gRPC unavailable no request was sent for it, it has
\* no Info, and a case of gRPC variants only has its counters at zero;
\* with gRPC available one request was sent through the gRPC client and it
\* has one Info, for a response in the bucket of the block and pass
\* predicates whether or not templates are in use.
C28_GRPC ==
  /\ \A id \in DOMAIN hist :
       (IsGRPCVariant(id) /\ hist[id].ret # "-") =>
         /\ hist[id].ret = "nil" /\ hist[id].takes = 1
         /\ hist[id].reqs = (IF grpcAvailable THEN 1 ELSE 0)
         /\ RecordsOf(id) = (IF grpcAvailable THEN 1 ELSE 0)
  /\ ~grpcAvailable =>
       \A key \in DOMAIN db.counters :
         (\A id \in DOMAIN hist :
            (WorkOf(id).setName = key[1] /\ WorkOf(id).caseName = key[2])
              => IsGRPCVariant(id))
           => CounterSum(key) = 0
  /\ \A id \in DOMAIN hist :
       (last.id = id /\ hist[id].ret # "-" /\ IsGRPCVariant(id)) =>
         /\ grpcAvailable /\ last.isGRPC
         /\ last.err = "nil" => InfosOf(db[C28_Bucket], id) # {}
  /\ bar + Cardinality(Returning)
       = Cardinality({id \in DOMAIN hist : hist[id].ret # "-"})

\* Templates are in use and gRPC is available: a gRPC variant answered 200
\* is in the passed bucket without any route or validation.
C28_Witness ==
  /\ ~requestTemplates.nil /\ grpcAvailable
  /\ last.id # 0 /\ last.isGRPC /\ last.err = "nil" /\ last.status = 200
  /\ ~last.route1 /\ ~last.validationOK
  /\ InfosOf(db.passedTests, last.id) # {}
  /\ hist[last.id].ret = "nil"

\* gRPC is not available: the gRPC variant was consumed and ticked, and
\* the store is as it was.
C28_Skipped ==
  /\ ~grpcAvailable /\ runErr = "nil"
  /\ \E id \in DOMAIN hist :
       IsGRPCVariant(id) /\ hist[id].ret = "nil" /\ RecordsOf(id) = 0
  /\ bar = NumberOfAllTestCases(testCases)

\* --------------------------------------------------------------- C29
\* A variant is dropped: it has no Info in any bucket, the counters of its
\* case count the other variants only, no scanned path comes from it, and
\* the worker is not left in it.
Dropped(id) ==
  /\ RecordsOf(id) = 0
  /\ \A n \in BucketNames : InfosOf(db[n], id) = {}
  /\ LET key == <<WorkOf(id).setName, WorkOf(id).caseName>>
     IN CounterSum(key) =
          SumOver([v \in DOMAIN hist |-> RecordsOf(v)],
                  {v \in DOMAIN hist \ {id} :
                     /\ WorkOf(v).setName = key[1]
                     /\ WorkOf(v).caseName = key[2]})
  /\ db.scannedPaths = {}
       \/ \E v \in DOMAIN hist \ {id} : hist[v].reqs > 0
  /\ \A i \in DOMAIN workers :
       workers[i].w.id = id => workers[i].pc \notin {"scan", "template", "append", "path"}

\* C29 as stated: a variant whose payload could not be encoded is dropped,
\* whatever the way it is sent.
C29_EncodingAlwaysDrops ==
  \A id \in DOMAIN hist : EncodingFailed(id) => Dropped(id)

\* C29, amended: a variant sent through templates whose payload could not
\* be encoded was returned for with the error 'encoding payload', no send
\* was called for it and it is dropped; a variant sent directly or over
\* gRPC whose encoder failed inside the send has one Info, in the failed
\* bucket and counted as failed, and scanURL returned nil for it.
C29_EncodingDrops ==
  /\ (last.id # 0 /\ last.err = EncoderError) =>
       /\ ~IsTemplateVariant(last.id) \/ last.isGRPC
       /\ hist[last.id].ret = "nil" /\ hist[last.id].reqs = 1
       /\ RecordsOf(last.id) = 1
       /\ Cardinality(InfosOf(db.failedTests, last.id)) = 1
       /\ db.counters[<<WorkOf(last.id).setName, WorkOf(last.id).caseName>>].failed
            >= 1
  /\ \A id \in DOMAIN hist :
       hist[id].ret = "encoding payload" =>
         IsTemplateVariant(id) /\ hist[id].reqs = 0 /\ Dropped(id)

\* Behind templates, with gRPC available: the payload of the first variant
\* could not be encoded before the templates and the variant is dropped;
\* the worker went on with the gRPC variant, whose encoder failed inside
\* the send and which is recorded Failed; Run returned nil.
C29_Witness ==
  /\ runErr = "nil" /\ bar = NumberOfAllTestCases(testCases)
  /\ hist[1].ret = "encoding payload" /\ hist[1].reqs = 0 /\ RecordsOf(1) = 0
  /\ last.id = 2 /\ last.isGRPC /\ last.err = EncoderError
  /\ hist[2].ret = "nil" /\ InfosOf(db.failedTests, 2) # {}

\* --------------------------------------------------------------- C30
\* p comes before q: its path is smaller, or the paths are equal and its
\* method is smaller.
Before(p, q) ==
  \/ StrLess(p.Path, q.Path)
  \/ p.Path = q.Path /\ StrLess(p.Method, q.Method)

\* C30: the Paths of the statistics hold every recorded (method, path) pair
\* once, ascending by path and then by method; Less is a strict total
\* order on the recorded pairs; sorting the sorted list again, or computing
\* the statistics again, gives the same list.
C30_PathsSorted ==
  stats # <<>> =>
    LET P == stats[1].Paths
        S == db.scannedPaths
    IN /\ {P[i] : i \in DOMAIN P} = S /\ Len(P) = Cardinality(S)
       /\ \A i, j \in DOMAIN P : i < j => Before(P[i], P[j])
       /\ \A p, q \in S :
            /\ ~PathLess(p, p)
            /\ p # q => (PathLess(p, q) <=> ~PathLess(q, p))
            /\ \A r \in S : (PathLess(p, q) /\ PathLess(q, r)) => PathLess(p, r)
       /\ SortPaths({P[i] : i \in DOMAIN P}) = P
       /\ Len(stats) = 2 => stats[2].Paths = P

\* Statistics computed twice over paths that share a path, share a method,
\* and have one path a prefix of another.
C30_Witness ==
  /\ Len(stats) = 2 /\ Len(stats[1].Paths) >= 4
  /\ stats[1].Paths[1] = [Method |-> "GET", Path |-> "/a"]
  /\ stats[1].Paths[2] = [Method |-> "PUT", Path |-> "/a"]
  /\ stats[1].Paths[3] = [Method |-> "POST", Path |-> "/ab"]
  /\ stats[1].Paths[4] = [Method |-> "GET", Path |-> "/b"]

\* --------------------------------------------------------------- C31
\* Each row's Sent is the sum of its four counts, and OverallRequests is
\* the sum of the two AllRequestsNumber and of the rows' Sent.
Balanced(s) ==
  LET rows == s.SummaryTable \o s.PositiveTests.SummaryTable
  IN /\ \A i \in DOMAIN rows :
          rows[i].Sent = rows[i].Blocked + rows[i].Bypassed
                         + rows[i].Unresolved + rows[i].Failed
     /\ s.OverallRequests = s.AllRequestsNumber + s.PositiveTests.AllRequestsNumber
     /\ s.OverallRequests = SumOver([i \in DOMAIN rows |-> rows[i].Sent], DOMAIN rows)

\* C31: the Statistics that GetStatistics returned, and the Statistics it
\* returns for the store under each of the four flag combinations, have
\* Sent = Blocked + Bypassed + Unresolved + Failed in every row and
\* OverallRequests = AllRequestsNumber + PositiveTests.AllRequestsNumber.
C31_RowsAddUp ==
  stats # <<>> =>
    /\ Balanced(stats[1])
    /\ \A i \in BOOLEAN, n \in BOOLEAN : Balanced(GetStatistics(db, i, n).stats)

\* Statistics without a flag set, over a store with an unresolved and a
\* failed request of negative cases and a request of the positive case.
C31_Witness ==
  /\ stats # <<>> /\ ~cfg.IgnoreUnresolved /\ ~cfg.NonBlockedAsPassed
  /\ stats[1].UnresolvedRequestsNumber = 1
  /\ stats[1].FailedRequestsNumber = 1
  /\ stats[1].PositiveTests.AllRequestsNumber = 1
  /\ stats[1].OverallRequests = 3

====
